---- MODULE Spec2Model ----
(***************************************************************************)
(* The in-memory entity store of the storefront platform                   *)
(* (src/server/storage.ts, class MemStorage).                              *)
(*                                                                         *)
(* Conventions of the translation                                         *)
(*  - a JavaScript object is a function from its keys (strings) to values; *)
(*    object spread {...a, ...b} is Spread(a, b);                          *)
(*  - a JavaScript Map is the sequence of its entries in insertion order,  *)
(*    which is the order Map.prototype.values() iterates in;               *)
(*  - null is Null in a string-valued field and NullInt in a number-valued *)
(*    field; undefined (a missing record) is the object Undefined;         *)
(*  - a Date is the number of seconds since the store was constructed (the *)
(*    code counts milliseconds; the factor 1000 is dropped so that thirty  *)
(*    days fit a 32-bit integer); `now` is the wall clock;                 *)
(*  - a decimal price is held in centavos (89.9 is 8990).                  *)
(*  - the get lookups have no effect on the store and are operators     *)
(*    over the state; every mutating method is one action, and records in  *)
(*    `ret` the call and what it returned;                                 *)
(*  - a method that awaits is also given step by step, one step up to     *)
(*    each await; `awaiting` holds the locals of the call suspended there. *)
(*                                                                         *)
(* Two callers of the store are modelled with it (src/unnamed/part_000):   *)
(* the POST /api/register handler with the password hash and the login of  *)
(* the auth module, `requests` holding the requests being served, and the  *)
(* storefront page with its cart and checkout, `page` holding its state.   *)
(***************************************************************************)
EXTENDS Integers, Sequences, FiniteSets, TLC

VARIABLES
    users, stores, categories, products, shopOwners,
    customers, carts, cartItems, orders, orderItems,
    userId, storeId, categoryId, productId, shopOwnerId,
    customerId, cartId, cartItemId, orderId, orderItemId,
    now, ret, awaiting, budget,
    requests, page

maps == <<users, stores, categories, products, shopOwners,
          customers, carts, cartItems, orders, orderItems>>

counters == <<userId, storeId, categoryId, productId, shopOwnerId,
              customerId, cartId, cartItemId, orderId, orderItemId>>

\* the state outside the store: the /api/register requests being served
\* and the storefront page open in a browser
web == <<requests, page>>

vars == <<maps, counters, now, ret, awaiting, budget, web>>

(***************************************************************************)
(* Bounds of the model.                                                    *)
(***************************************************************************)
\* records created per entity kind on top of the seeded ones
MaxCreate == 2
\* ticks of the wall clock
MaxTime == 2
\* cart items, and order items, created
MaxItems == 3
\* steps (store calls and clock ticks) of a behaviour of the whole store
MaxOps == 2
\* steps of a behaviour of the product catalogue alone
MaxProductOps == 3
\* steps of a behaviour of the carts alone
MaxCartOps == 5
\* steps of a behaviour in which a Stripe call is suspended at its awaits
MaxAwaitOps == 4

(***************************************************************************)
(* JavaScript values.                                                      *)
(***************************************************************************)
Null == "<null>"
NullInt == -1
Undefined == [undefined |-> TRUE]

\* `x || null` on a string-valued key: a missing key, null and "" are falsy
OrNull(obj, key) ==
    IF key \in DOMAIN obj /\ obj[key] # Null /\ obj[key] # ""
    THEN obj[key] ELSE Null

\* `x || null` on a number-valued key: a missing key, null and 0 are falsy
OrNullInt(obj, key) ==
    IF key \in DOMAIN obj /\ obj[key] # NullInt /\ obj[key] # 0
    THEN obj[key] ELSE NullInt

\* `x || null` on a Date-valued key: a missing key and null are falsy, a
\* Date never is
OrNullDate(obj, key) ==
    IF key \in DOMAIN obj /\ obj[key] # NullInt THEN obj[key] ELSE NullInt

\* { ...a, ...b }
Spread(a, b) ==
    [key \in DOMAIN a \cup DOMAIN b |->
        IF key \in DOMAIN b THEN b[key] ELSE a[key]]

\* the keys of `partial` among `keys` (the `!== undefined` copies of the
\* normalising updates)
Pick(partial, keys) ==
    [key \in DOMAIN partial \cap keys |-> partial[key]]

(***************************************************************************)
(* Map<number, T>: entries [k, v] in insertion order.                      *)
(***************************************************************************)
MapKeys(m) == {m[i].k : i \in 1..Len(m)}

MapHas(m, key) == key \in MapKeys(m)

MapIndex(m, key) == CHOOSE i \in 1..Len(m) : m[i].k = key

\* Map.get
MapGet(m, key) ==
    IF MapHas(m, key) THEN m[MapIndex(m, key)].v ELSE Undefined

\* Map.set: an existing key keeps its place, a new key goes last
MapSet(m, key, value) ==
    IF MapHas(m, key)
    THEN [m EXCEPT ![MapIndex(m, key)] = [k |-> key, v |-> value]]
    ELSE Append(m, [k |-> key, v |-> value])

\* Map.delete
MapDelete(m, key) ==
    SelectSeq(m, LAMBDA e : e.k # key)

\* Array.from(map.values())
MapValues(m) == [i \in 1..Len(m) |-> m[i].v]

\* Array.prototype.filter, `hits` being the indices that pass the test
Filter(arr, hits) ==
    LET kept[i \in 0..Len(arr)] ==
            IF i = 0 THEN <<>>
            ELSE IF i \in hits THEN Append(kept[i - 1], arr[i])
            ELSE kept[i - 1]
    IN kept[Len(arr)]

\* the last element passing the test (findLast)
Find_last(arr, hits) ==
    IF hits = {} THEN Undefined
    ELSE arr[CHOOSE i \in hits : \A j \in hits : i >= j]

\* Array.prototype.find, `hits` being the indices that pass the test: the
\* first such element, or undefined
Find(arr, hits) ==
    IF hits = {} THEN Undefined
    ELSE arr[CHOOSE i \in hits : \A j \in hits : i <= j]

(***************************************************************************)
(* The call suspended at an await: where it stands (`pc`), its arguments   *)
(* and the locals it has assigned so far.  The locals hold the objects the *)
(* lookups returned, as they were when returned.                           *)
(***************************************************************************)
\* no call is suspended at an await
Idle ==
    [pc |-> "idle", op |-> "", args |-> <<>>, user |-> Undefined,
     shopOwner |-> Undefined]

(***************************************************************************)
(* The constructor: counters from 1, then the seeded records.              *)
(***************************************************************************)
ThirtyDays == 30 * 24 * 60 * 60

adminUser ==
    [id |-> 1, username |-> "admin",
     password |-> "$2b$10$Fh6MUHRGJDQgFRREWjGwH.zoD5mTJo/LP91zhcGWHYpO7sHBUj6T.",
     email |-> "admin@moments.com", name |-> "Administrador",
     role |-> "admin", createdAt |-> 0]

defaultStore ==
    [id |-> 1, name |-> "Loja Moments Paris", slug |-> "moments",
     logoUrl |-> "/placeholder-logo.jpg", whatsappNumber |-> "11987654321",
     instagramUrl |-> Null, facebookUrl |-> Null, showSocialMedia |-> FALSE,
     active |-> TRUE, createdAt |-> 0, updatedAt |-> 0, templateId |-> NullInt]

shopOwnerUser ==
    [id |-> 2, username |-> "lojista",
     password |-> "$2b$10$2zZREfX0Ssa81Y4PYIxlaeYMQKvagrdLWVlVQ0tXaQ7u1nU2vhSne",
     email |-> "lojista@moments.com", name |-> "Lojista Demo",
     role |-> "shopowner", createdAt |-> 0]

shopOwner ==
    [id |-> 1, userId |-> shopOwnerUser.id, storeId |-> defaultStore.id,
     subscriptionStatus |-> "trial", subscriptionExpiresAt |-> 0 + ThirtyDays,
     stripeCustomerId |-> Null, stripePriceId |-> Null,
     stripeSubscriptionId |-> Null]

skinCareCategory ==
    [id |-> 1, name |-> "Cuidados com a Pele",
     storeId |-> defaultStore.id, createdAt |-> 0]

hairCareCategory ==
    [id |-> 2, name |-> "Cuidados com o Cabelo",
     storeId |-> defaultStore.id, createdAt |-> 0]

perfumeCategory ==
    [id |-> 3, name |-> "Perfumes",
     storeId |-> defaultStore.id, createdAt |-> 0]

bodyCareCategory ==
    [id |-> 4, name |-> "Cuidados Corporais",
     storeId |-> defaultStore.id, createdAt |-> 0]

sampleProducts ==
    << [id |-> 1, name |-> "Creme Hidratante Facial", price |-> 8990,
        description |-> "Hidratacao profunda para todos os tipos de pele.",
        imageUrl |-> "/placeholder-product-1.jpg",
        storeId |-> defaultStore.id, categoryId |-> skinCareCategory.id,
        active |-> TRUE, createdAt |-> 0, updatedAt |-> 0],
       [id |-> 2, name |-> "Serum Facial Antioxidante", price |-> 12990,
        description |-> "Com vitamina C que combate os radicais livres.",
        imageUrl |-> "/placeholder-product-2.jpg",
        storeId |-> defaultStore.id, categoryId |-> skinCareCategory.id,
        active |-> TRUE, createdAt |-> 0, updatedAt |-> 0],
       [id |-> 3, name |-> "Mascara Capilar Reparadora", price |-> 7590,
        description |-> "Tratamento intensivo para cabelos danificados.",
        imageUrl |-> "/placeholder-product-3.jpg",
        storeId |-> defaultStore.id, categoryId |-> hairCareCategory.id,
        active |-> TRUE, createdAt |-> 0, updatedAt |-> 0],
       [id |-> 4, name |-> "Protetor Solar FPS 50", price |-> 6990,
        description |-> "Protecao UVA/UVB de amplo espectro.",
        imageUrl |-> "/placeholder-product-4.jpg",
        storeId |-> defaultStore.id, categoryId |-> skinCareCategory.id,
        active |-> TRUE, createdAt |-> 0, updatedAt |-> 0],
       [id |-> 5, name |-> "Perfume Floral", price |-> 15990,
        description |-> "Fragrancia sofisticada com notas de jasmim.",
        imageUrl |-> "/placeholder-product-5.jpg",
        storeId |-> defaultStore.id, categoryId |-> perfumeCategory.id,
        active |-> TRUE, createdAt |-> 0, updatedAt |-> 0],
       [id |-> 6, name |-> "Oleo Corporal Relaxante", price |-> 8590,
        description |-> "Hidratacao profunda com aroma terapeutico.",
        imageUrl |-> "/placeholder-product-6.jpg",
        storeId |-> defaultStore.id, categoryId |-> bodyCareCategory.id,
        active |-> TRUE, createdAt |-> 0, updatedAt |-> 0] >>

customerUser ==
    [id |-> 3, username |-> "cliente",
     password |-> "$2b$10$2TYxJv7TIhCGNz5LkO18Y.8BpYU1AHVlBNrfLODmyH3RnoIQqcyEi",
     email |-> "cliente@email.com", name |-> "Cliente Demo",
     role |-> "customer", createdAt |-> 0]

customer ==
    [id |-> 1, userId |-> customerUser.id,
     address |-> "Rua das Flores, 123, Sao Paulo - SP",
     phone |-> "11998765432"]

\* the Map a run of map.set(record.id, record) over `records` builds
Seeded(records) == [i \in 1..Len(records) |-> [k |-> records[i].id, v |-> records[i]]]

constructed ==
    /\ users = Seeded(<<adminUser, shopOwnerUser, customerUser>>)
    /\ stores = Seeded(<<defaultStore>>)
    /\ categories = Seeded(<<skinCareCategory, hairCareCategory,
                             perfumeCategory, bodyCareCategory>>)
    /\ products = Seeded(sampleProducts)
    /\ shopOwners = Seeded(<<shopOwner>>)
    /\ customers = Seeded(<<customer>>)
    /\ carts = <<>>
    /\ cartItems = <<>>
    /\ orders = <<>>
    /\ orderItems = <<>>
    /\ userId = 4
    /\ storeId = 2
    /\ categoryId = 5
    /\ productId = 7
    /\ shopOwnerId = 2
    /\ customerId = 2
    /\ cartId = 1
    /\ cartItemId = 1
    /\ orderId = 1
    /\ orderItemId = 1
    /\ now = 0
    /\ ret = [op |-> "constructor", args |-> <<>>, out |-> "value", val |-> Undefined]
    /\ awaiting = Idle

(***************************************************************************)
(* What a call returned: `out` is "value", "undefined" (the not-found      *)
(* sentinel) or "throw"; `val` is the value returned or the error thrown.  *)
(***************************************************************************)
Returns(op, args, val) == [op |-> op, args |-> args, out |-> "value", val |-> val]

ReturnsUndefined(op, args) ==
    [op |-> op, args |-> args, out |-> "undefined", val |-> Undefined]

Throws(op, args, message) ==
    [op |-> op, args |-> args, out |-> "throw", val |-> message]

\* every call and every tick of the clock uses up one step of the budget
Spend == budget > 0 /\ budget' = budget - 1

\* the ids a call is aimed at: the first id of the kind, the id assigned
\* last, and the next id, which no record has
TargetIds(counter) == {1, counter - 1, counter}

\* whether another record may be created: `seeded` records exist at the start
CanCreate(counter, seeded) == counter <= seeded + MaxCreate

exceptUsers ==
    <<stores, categories, products, shopOwners, customers, carts, cartItems,
      orders, orderItems, storeId, categoryId, productId, shopOwnerId,
      customerId, cartId, cartItemId, orderId, orderItemId,
      awaiting, web>>

exceptStores ==
    <<users, categories, products, shopOwners, customers, carts, cartItems,
      orders, orderItems, userId, categoryId, productId, shopOwnerId,
      customerId, cartId, cartItemId, orderId, orderItemId,
      awaiting, web>>

exceptCategories ==
    <<users, stores, products, shopOwners, customers, carts, cartItems,
      orders, orderItems, userId, storeId, productId, shopOwnerId,
      customerId, cartId, cartItemId, orderId, orderItemId,
      awaiting, web>>

exceptProducts ==
    <<users, stores, categories, shopOwners, customers, carts, cartItems,
      orders, orderItems, userId, storeId, categoryId, shopOwnerId,
      customerId, cartId, cartItemId, orderId, orderItemId,
      awaiting, web>>

exceptShopOwners ==
    <<users, stores, categories, products, customers, carts, cartItems,
      orders, orderItems, userId, storeId, categoryId, productId,
      customerId, cartId, cartItemId, orderId, orderItemId,
      awaiting, web>>

exceptCustomers ==
    <<users, stores, categories, products, shopOwners, carts, cartItems,
      orders, orderItems, userId, storeId, categoryId, productId,
      shopOwnerId, cartId, cartItemId, orderId, orderItemId,
      awaiting, web>>

exceptCarts ==
    <<users, stores, categories, products, shopOwners, customers,
      orders, orderItems, userId, storeId, categoryId, productId,
      shopOwnerId, customerId, orderId, orderItemId,
      awaiting, web>>

exceptOrders ==
    <<users, stores, categories, products, shopOwners, customers, carts,
      cartItems, orderItems, userId, storeId, categoryId, productId,
      shopOwnerId, customerId, cartId, cartItemId, orderItemId,
      awaiting, web>>

exceptOrderItems ==
    <<users, stores, categories, products, shopOwners, customers, carts,
      cartItems, orders, userId, storeId, categoryId, productId,
      shopOwnerId, customerId, cartId, cartItemId, orderId,
      awaiting, web>>

(***************************************************************************)
(* Category methods.                                                       *)
(***************************************************************************)
CategoryInputs ==
    { [name |-> "Maquiagem", storeId |-> 1],
      [name |-> "Perfumes", storeId |-> 2, id |-> 1] }

CategoryPartials ==
    { [name |-> "Unhas"],
      [storeId |-> 2, name |-> "Perfumes"] }

getCategories(sid) ==
    LET all == MapValues(categories)
    IN Filter(all, {i \in 1..Len(all) : all[i].storeId = sid})

getCategory(id) == MapGet(categories, id)

createCategory(category) ==
    LET id == categoryId
        newCategory == Spread(category, [id |-> id, createdAt |-> now])
    IN /\ Spend
       /\ CanCreate(categoryId, 4)
       /\ categoryId' = categoryId + 1
       /\ categories' = MapSet(categories, id, newCategory)
       /\ ret' = Returns("createCategory", [input |-> category], newCategory)
       /\ UNCHANGED <<exceptCategories, now>>

updateCategory(id, category) ==
    LET existingCategory == MapGet(categories, id)
        updatedCategory == Spread(existingCategory, category)
        args == [id |-> id, partial |-> category]
    IN /\ Spend
       /\ IF existingCategory = Undefined
          THEN /\ ret' = ReturnsUndefined("updateCategory", args)
               /\ UNCHANGED <<categories, categoryId, exceptCategories, now>>
          ELSE /\ categories' = MapSet(categories, id, updatedCategory)
               /\ ret' = Returns("updateCategory", args, updatedCategory)
               /\ UNCHANGED <<categoryId, exceptCategories, now>>

deleteCategory(id) ==
    /\ Spend
    /\ categories' = MapDelete(categories, id)
    /\ ret' = Returns("deleteCategory", [id |-> id], MapHas(categories, id))
    /\ UNCHANGED <<categoryId, exceptCategories, now>>

(***************************************************************************)
(* User methods.                                                           *)
(***************************************************************************)
UserInputs ==
    { [username |-> "maria", password |-> "hash.maria",
       email |-> "maria@email.com", name |-> "Maria", role |-> "customer"],
      [username |-> "admin", password |-> "hash.outro",
       email |-> "cliente@email.com", name |-> "Outro", role |-> "shopowner"] }

UserPartials ==
    { [name |-> "Novo Nome"],
      [username |-> "lojista", email |-> "admin@moments.com"] }

Usernames == {"admin", "lojista", "cliente", "maria", "nonexistent"}

Emails == {"admin@moments.com", "cliente@email.com", "maria@email.com",
           "ninguem@email.com"}

getUser(id) == MapGet(users, id)

getUserByUsername(username) ==
    LET all == MapValues(users)
    IN Find(all, {i \in 1..Len(all) : all[i].username = username})

getUserByEmail(email) ==
    LET all == MapValues(users)
    IN Find(all, {i \in 1..Len(all) : all[i].email = email})

getUsersByRole(role) ==
    LET all == MapValues(users)
    IN Filter(all, {i \in 1..Len(all) : all[i].role = role})

createUser(user) ==
    LET id == userId
        newUser == Spread(user, [id |-> id, createdAt |-> now])
    IN /\ Spend
       /\ CanCreate(userId, 3)
       /\ userId' = userId + 1
       /\ users' = MapSet(users, id, newUser)
       /\ ret' = Returns("createUser", [input |-> user], newUser)
       /\ UNCHANGED <<exceptUsers, now>>

updateUser(id, user) ==
    LET existingUser == MapGet(users, id)
        updatedUser == Spread(existingUser, user)
        args == [id |-> id, partial |-> user]
    IN /\ Spend
       /\ IF existingUser = Undefined
          THEN /\ ret' = ReturnsUndefined("updateUser", args)
               /\ UNCHANGED <<users, userId, exceptUsers, now>>
          ELSE /\ users' = MapSet(users, id, updatedUser)
               /\ ret' = Returns("updateUser", args, updatedUser)
               /\ UNCHANGED <<userId, exceptUsers, now>>

(***************************************************************************)
(* Store methods.                                                          *)
(***************************************************************************)
StoreInputs ==
    { [name |-> "Loja de Maria", logoUrl |-> "/placeholder-logo.jpg",
       whatsappNumber |-> "", templateId |-> NullInt],
      [name |-> "Outra Loja", slug |-> "moments", logoUrl |-> Null,
       whatsappNumber |-> "11900000000", instagramUrl |-> Null,
       facebookUrl |-> Null, showSocialMedia |-> TRUE, active |-> FALSE,
       templateId |-> 2] }

StorePartials ==
    { [name |-> "Loja Renovada", instagramUrl |-> "https://instagram.com/loja"],
      [slug |-> "moments", logoUrl |-> Null, active |-> FALSE],
      [theme |-> "rosa"] }

Slugs == {"moments", "outra"}

getStore(id) == MapGet(stores, id)

getStores == MapValues(stores)

\* the shop owner looked up by its own id, not by its user's
getStoreByOwner_byOwnerId(ownerId) ==
    LET owner == MapGet(shopOwners, ownerId)
    IN IF owner = Undefined \/ owner.storeId = NullInt \/ owner.storeId = 0
       THEN Undefined
       ELSE MapGet(stores, owner.storeId)

getStoreByOwner(ownerId) ==
    LET all == MapValues(shopOwners)
        owner == Find(all, {i \in 1..Len(all) : all[i].userId = ownerId})
    IN IF owner = Undefined \/ owner.storeId = NullInt \/ owner.storeId = 0
       THEN Undefined
       ELSE MapGet(stores, owner.storeId)

getStoreBySlug(slug) ==
    LET all == MapValues(stores)
    IN Find(all, {i \in 1..Len(all) : all[i].slug = slug})

createStore(store) ==
    LET id == storeId
        newStore ==
            Spread(store,
                   [id |-> id, slug |-> OrNull(store, "slug"), active |-> TRUE,
                    createdAt |-> now, updatedAt |-> now,
                    templateId |-> OrNullInt(store, "templateId")])
    IN /\ Spend
       /\ CanCreate(storeId, 1)
       /\ storeId' = storeId + 1
       /\ stores' = MapSet(stores, id, newStore)
       /\ ret' = Returns("createStore", [input |-> store], newStore)
       /\ UNCHANGED <<exceptStores, now>>

updateStore(id, store) ==
    LET existingStore == MapGet(stores, id)
        normalizedStore ==
            Pick(store, {"name", "slug", "whatsappNumber", "logoUrl",
                         "instagramUrl", "facebookUrl", "showSocialMedia",
                         "active", "templateId"})
        updatedStore ==
            Spread(Spread(existingStore, normalizedStore), [updatedAt |-> now])
        args == [id |-> id, partial |-> store]
    IN /\ Spend
       /\ IF existingStore = Undefined
          THEN /\ ret' = ReturnsUndefined("updateStore", args)
               /\ UNCHANGED <<stores, storeId, exceptStores, now>>
          ELSE /\ stores' = MapSet(stores, id, updatedStore)
               /\ ret' = Returns("updateStore", args, updatedStore)
               /\ UNCHANGED <<storeId, exceptStores, now>>

\* the categories of the store deleted with it
deleteStore_cascade(id) ==
    LET all == MapValues(categories)
    IN /\ Spend
       /\ stores' = MapDelete(stores, id)
       /\ categories' =
             Seeded(Filter(all, {i \in 1..Len(all) : all[i].storeId # id}))
       /\ ret' = Returns("deleteStore", [id |-> id], MapHas(stores, id))
       /\ UNCHANGED <<users, products, shopOwners, customers, carts,
                      cartItems, orders, orderItems, counters, now, awaiting,
                      web>>

deleteStore(id) ==
    /\ Spend
    /\ stores' = MapDelete(stores, id)
    /\ ret' = Returns("deleteStore", [id |-> id], MapHas(stores, id))
    /\ UNCHANGED <<storeId, exceptStores, now>>

(***************************************************************************)
(* Product methods.                                                        *)
(***************************************************************************)
ProductInputs ==
    { [name |-> "Batom", price |-> 1000, storeId |-> 1],
      [name |-> "Esmalte", price |-> 0, description |-> "Vermelho",
       imageUrl |-> "", storeId |-> 2, categoryId |-> 1, active |-> FALSE],
      [name |-> "Avulso", price |-> 500, description |-> Null, storeId |-> 0] }

ProductPartials ==
    { [price |-> 1200],
      [description |-> Null],
      [name |-> "Novo", categoryId |-> NullInt, active |-> FALSE],
      [storeId |-> 2, price |-> 1200] }

\* the store ids a caller may ask the products of; NullInt is the argument
\* left out
StoreIdArgs == {NullInt} \cup 0..(1 + MaxCreate)

getProducts(sid) ==
    LET allProducts == MapValues(products)
    IN IF sid # NullInt /\ sid # 0
       THEN Filter(allProducts,
                   {i \in 1..Len(allProducts) : allProducts[i].storeId = sid})
       ELSE allProducts

getProduct(id) == MapGet(products, id)

\* the next id taken from the number of products held
createProduct_idFromSize(product) ==
    LET id == Len(products) + 1
        newProduct ==
            Spread(product,
                   [id |-> id, description |-> OrNull(product, "description"),
                    imageUrl |-> OrNull(product, "imageUrl"), active |-> TRUE,
                    createdAt |-> now, updatedAt |-> now])
    IN /\ Spend
       /\ CanCreate(productId, 6)
       /\ productId' = productId + 1
       /\ products' = MapSet(products, id, newProduct)
       /\ ret' = Returns("createProduct", [input |-> product], newProduct)
       /\ UNCHANGED <<exceptProducts, now>>

createProduct(product) ==
    LET id == productId
        newProduct ==
            Spread(product,
                   [id |-> id, description |-> OrNull(product, "description"),
                    imageUrl |-> OrNull(product, "imageUrl"), active |-> TRUE,
                    createdAt |-> now, updatedAt |-> now])
    IN /\ Spend
       /\ CanCreate(productId, 6)
       /\ productId' = productId + 1
       /\ products' = MapSet(products, id, newProduct)
       /\ ret' = Returns("createProduct", [input |-> product], newProduct)
       /\ UNCHANGED <<exceptProducts, now>>

\* the stored record built from the normalised keys alone, the existing
\* record not spread into it
updateProduct_overwrite(id, product) ==
    LET existingProduct == MapGet(products, id)
        normalizedProduct ==
            Pick(product, {"name", "price", "description", "imageUrl",
                           "active", "categoryId"})
        updatedProduct ==
            Spread(Spread([id |-> id], normalizedProduct), [updatedAt |-> now])
        args == [id |-> id, partial |-> product]
    IN /\ Spend
       /\ IF existingProduct = Undefined
          THEN /\ ret' = ReturnsUndefined("updateProduct", args)
               /\ UNCHANGED <<products, productId, exceptProducts, now>>
          ELSE /\ products' = MapSet(products, id, updatedProduct)
               /\ ret' = Returns("updateProduct", args, updatedProduct)
               /\ UNCHANGED <<productId, exceptProducts, now>>

\* a new name also written to the order items that carry the former name
updateProduct_syncOrderItems(id, product) ==
    LET existingProduct == MapGet(products, id)
        normalizedProduct ==
            Pick(product, {"name", "price", "description", "imageUrl",
                           "active", "categoryId"})
        updatedProduct ==
            Spread(Spread(existingProduct, normalizedProduct),
                   [updatedAt |-> now])
        args == [id |-> id, partial |-> product]
    IN /\ Spend
       /\ IF existingProduct = Undefined
          THEN /\ ret' = ReturnsUndefined("updateProduct", args)
               /\ UNCHANGED <<products, productId, exceptProducts, now>>
          ELSE /\ products' = MapSet(products, id, updatedProduct)
               /\ orderItems' =
                     [i \in 1..Len(orderItems) |->
                         IF orderItems[i].v.productName = existingProduct.name
                         THEN [orderItems[i] EXCEPT
                                   !.v.productName = updatedProduct.name]
                         ELSE orderItems[i]]
               /\ ret' = Returns("updateProduct", args, updatedProduct)
               /\ UNCHANGED <<users, stores, categories, shopOwners, customers,
                              carts, cartItems, orders, counters, now,
                              awaiting, web>>

updateProduct(id, product) ==
    LET existingProduct == MapGet(products, id)
        normalizedProduct ==
            Pick(product, {"name", "price", "description", "imageUrl",
                           "active", "categoryId"})
        updatedProduct ==
            Spread(Spread(existingProduct, normalizedProduct),
                   [updatedAt |-> now])
        args == [id |-> id, partial |-> product]
    IN /\ Spend
       /\ IF existingProduct = Undefined
          THEN /\ ret' = ReturnsUndefined("updateProduct", args)
               /\ UNCHANGED <<products, productId, exceptProducts, now>>
          ELSE /\ products' = MapSet(products, id, updatedProduct)
               /\ ret' = Returns("updateProduct", args, updatedProduct)
               /\ UNCHANGED <<productId, exceptProducts, now>>

deleteProduct(id) ==
    /\ Spend
    /\ products' = MapDelete(products, id)
    /\ ret' = Returns("deleteProduct", [id |-> id], MapHas(products, id))
    /\ UNCHANGED <<productId, exceptProducts, now>>

(***************************************************************************)
(* Shop owner methods.                                                     *)
(***************************************************************************)
ShopOwnerInputs ==
    { [userId |-> 2, storeId |-> 2, subscriptionStatus |-> "trial",
       subscriptionExpiresAt |-> 15 * 24 * 60 * 60],
      [userId |-> 3, storeId |-> NullInt, subscriptionStatus |-> "inactive"] }

ShopOwnerPartials ==
    { [subscriptionStatus |-> "expired"],
      [subscriptionStatus |-> "inactive", subscriptionExpiresAt |-> NullInt],
      [userId |-> 3, stripePriceId |-> "price_1"] }

\* the user ids a caller may name: the seeded users, those created, and one
\* id that no user has
UserIdArgs == 1..(4 + MaxCreate)

getShopOwner(id) == MapGet(shopOwners, id)

getShopOwnerByUserId(uid) ==
    LET all == MapValues(shopOwners)
    IN Find(all, {i \in 1..Len(all) : all[i].userId = uid})

createShopOwner(owner) ==
    LET id == shopOwnerId
        newShopOwner ==
            Spread(owner,
                   [id |-> id,
                    subscriptionExpiresAt |->
                        OrNullDate(owner, "subscriptionExpiresAt"),
                    stripeCustomerId |-> Null, stripePriceId |-> Null,
                    stripeSubscriptionId |-> Null])
    IN /\ Spend
       /\ CanCreate(shopOwnerId, 1)
       /\ shopOwnerId' = shopOwnerId + 1
       /\ shopOwners' = MapSet(shopOwners, id, newShopOwner)
       /\ ret' = Returns("createShopOwner", [input |-> owner], newShopOwner)
       /\ UNCHANGED <<exceptShopOwners, now>>

updateShopOwnerSubscription(id, data) ==
    LET existingShopOwner == MapGet(shopOwners, id)
        updatedShopOwner == Spread(existingShopOwner, data)
        args == [id |-> id, partial |-> data]
    IN /\ Spend
       /\ IF existingShopOwner = Undefined
          THEN /\ ret' = ReturnsUndefined("updateShopOwnerSubscription", args)
               /\ UNCHANGED <<shopOwners, shopOwnerId, exceptShopOwners, now>>
          ELSE /\ shopOwners' = MapSet(shopOwners, id, updatedShopOwner)
               /\ ret' = Returns("updateShopOwnerSubscription", args,
                                 updatedShopOwner)
               /\ UNCHANGED <<shopOwnerId, exceptShopOwners, now>>

(***************************************************************************)
(* Customer methods.                                                       *)
(***************************************************************************)
CustomerInputs ==
    { [userId |-> 4],
      [userId |-> 3, address |-> "Av. Paulista, 1000", phone |-> ""] }

CustomerPartials ==
    { [address |-> Null],
      [userId |-> 1, phone |-> "11911112222"] }

getCustomer(id) == MapGet(customers, id)

getCustomerByUserId(uid) ==
    LET all == MapValues(customers)
    IN Find(all, {i \in 1..Len(all) : all[i].userId = uid})

createCustomer(input) ==
    LET id == customerId
        newCustomer ==
            Spread(input,
                   [id |-> id, address |-> OrNull(input, "address"),
                    phone |-> OrNull(input, "phone")])
    IN /\ Spend
       /\ CanCreate(customerId, 1)
       /\ customerId' = customerId + 1
       /\ customers' = MapSet(customers, id, newCustomer)
       /\ ret' = Returns("createCustomer", [input |-> input], newCustomer)
       /\ UNCHANGED <<exceptCustomers, now>>

updateCustomer(id, partial) ==
    LET existingCustomer == MapGet(customers, id)
        updatedCustomer == Spread(existingCustomer, partial)
        args == [id |-> id, partial |-> partial]
    IN /\ Spend
       /\ IF existingCustomer = Undefined
          THEN /\ ret' = ReturnsUndefined("updateCustomer", args)
               /\ UNCHANGED <<customers, customerId, exceptCustomers, now>>
          ELSE /\ customers' = MapSet(customers, id, updatedCustomer)
               /\ ret' = Returns("updateCustomer", args, updatedCustomer)
               /\ UNCHANGED <<customerId, exceptCustomers, now>>

(***************************************************************************)
(* Cart methods.                                                           *)
(***************************************************************************)
CartInputs ==
    { [customerId |-> 1, storeId |-> 1],
      [customerId |-> 2, storeId |-> 1] }

getCart(id) == MapGet(carts, id)

getCartByCustomer(cid, sid) ==
    LET all == MapValues(carts)
    IN Find(all, {i \in 1..Len(all) :
                    all[i].customerId = cid /\ all[i].storeId = sid})

createCart(cart) ==
    LET id == cartId
        newCart == Spread(cart, [id |-> id, createdAt |-> now, updatedAt |-> now])
    IN /\ Spend
       /\ CanCreate(cartId, 0)
       /\ cartId' = cartId + 1
       /\ carts' = MapSet(carts, id, newCart)
       /\ ret' = Returns("createCart", [input |-> cart], newCart)
       /\ UNCHANGED <<cartItems, cartItemId, exceptCarts, now>>

\* only the first item of the cart deleted (find in place of filter)
deleteCart_firstItemOnly(id) ==
    LET all == MapValues(cartItems)
        item == Find(all, {i \in 1..Len(all) : all[i].cartId = id})
    IN /\ Spend
       /\ cartItems' =
             IF item = Undefined THEN cartItems ELSE MapDelete(cartItems, item.id)
       /\ carts' = MapDelete(carts, id)
       /\ ret' = Returns("deleteCart", [id |-> id], MapHas(carts, id))
       /\ UNCHANGED <<cartId, cartItemId, exceptCarts, now>>

\* the items of every cart deleted, not only those of the cart
deleteCart_everyItem(id) ==
    /\ Spend
    /\ cartItems' = <<>>
    /\ carts' = MapDelete(carts, id)
    /\ ret' = Returns("deleteCart", [id |-> id], MapHas(carts, id))
    /\ UNCHANGED <<cartId, cartItemId, exceptCarts, now>>

deleteCart(id) ==
    LET all == MapValues(cartItems)
        items == Filter(all, {i \in 1..Len(all) : all[i].cartId = id})
        \* forEach(item => this.cartItems.delete(item.id))
        deleted[n \in 0..Len(items)] ==
            IF n = 0 THEN cartItems ELSE MapDelete(deleted[n - 1], items[n].id)
    IN /\ Spend
       /\ cartItems' = deleted[Len(items)]
       /\ carts' = MapDelete(carts, id)
       /\ ret' = Returns("deleteCart", [id |-> id], MapHas(carts, id))
       /\ UNCHANGED <<cartId, cartItemId, exceptCarts, now>>

(***************************************************************************)
(* Cart item methods.                                                      *)
(***************************************************************************)
CartItemInputs ==
    { [cartId |-> 1, productId |-> 1, quantity |-> 1],
      [cartId |-> 1, productId |-> 2, quantity |-> 2],
      [cartId |-> 2, productId |-> 1, quantity |-> 1] }

Quantities == {0, 3}

getCartItems(cid) ==
    LET all == MapValues(cartItems)
    IN Filter(all, {i \in 1..Len(all) : all[i].cartId = cid})

getCartItem(id) == MapGet(cartItems, id)

\* the cart left as it was
touchCart_never(cid) == carts

\* const cart = this.carts.get(cid);
\* if (cart) { cart.updatedAt = new Date(); this.carts.set(cart.id, cart); }
\* the assignment changes the object the Map holds under cid
touchCart(cid) ==
    LET cart == MapGet(carts, cid)
        touched == [cart EXCEPT !.updatedAt = now]
    IN IF cart = Undefined THEN carts
       ELSE MapSet(MapSet(carts, cid, touched), touched.id, touched)

createCartItem(cartItem) ==
    LET id == cartItemId
        newCartItem == Spread(cartItem, [id |-> id])
    IN /\ Spend
       /\ cartItemId <= MaxItems
       /\ cartItemId' = cartItemId + 1
       /\ cartItems' = MapSet(cartItems, id, newCartItem)
       /\ carts' = touchCart(cartItem.cartId)
       /\ ret' = Returns("createCartItem", [input |-> cartItem], newCartItem)
       /\ UNCHANGED <<cartId, exceptCarts, now>>

\* a missing cart item created by the update (an upsert)
updateCartItem_upsert(id, quantity) ==
    LET existingCartItem == MapGet(cartItems, id)
        updatedCartItem ==
            IF existingCartItem = Undefined
            THEN [id |-> id, quantity |-> quantity]
            ELSE Spread(existingCartItem, [quantity |-> quantity])
        args == [id |-> id, quantity |-> quantity]
    IN /\ Spend
       /\ cartItems' = MapSet(cartItems, id, updatedCartItem)
       /\ carts' = IF existingCartItem = Undefined THEN carts
                   ELSE touchCart(existingCartItem.cartId)
       /\ ret' = Returns("updateCartItem", args, updatedCartItem)
       /\ UNCHANGED <<cartId, cartItemId, exceptCarts, now>>

updateCartItem(id, quantity) ==
    LET existingCartItem == MapGet(cartItems, id)
        updatedCartItem == Spread(existingCartItem, [quantity |-> quantity])
        args == [id |-> id, quantity |-> quantity]
    IN /\ Spend
       /\ IF existingCartItem = Undefined
          THEN /\ ret' = ReturnsUndefined("updateCartItem", args)
               /\ UNCHANGED <<carts, cartItems, cartId, cartItemId, exceptCarts, now>>
          ELSE /\ cartItems' = MapSet(cartItems, id, updatedCartItem)
               /\ carts' = touchCart(existingCartItem.cartId)
               /\ ret' = Returns("updateCartItem", args, updatedCartItem)
               /\ UNCHANGED <<cartId, cartItemId, exceptCarts, now>>

\* the delete done inside `if (cart)`: an item whose cart is missing stays
deleteCartItem_needsCart(id) ==
    LET cartItem == MapGet(cartItems, id)
    IN /\ Spend
       /\ IF cartItem = Undefined \/ getCart(cartItem.cartId) = Undefined
          THEN /\ ret' = Returns("deleteCartItem", [id |-> id], FALSE)
               /\ UNCHANGED <<carts, cartItems, cartId, cartItemId, exceptCarts, now>>
          ELSE /\ carts' = touchCart(cartItem.cartId)
               /\ cartItems' = MapDelete(cartItems, id)
               /\ ret' = Returns("deleteCartItem", [id |-> id],
                                 MapHas(cartItems, id))
               /\ UNCHANGED <<cartId, cartItemId, exceptCarts, now>>

deleteCartItem(id) ==
    LET cartItem == MapGet(cartItems, id)
    IN /\ Spend
       /\ IF cartItem = Undefined
          THEN /\ ret' = Returns("deleteCartItem", [id |-> id], FALSE)
               /\ UNCHANGED <<carts, cartItems, cartId, cartItemId, exceptCarts, now>>
          ELSE /\ carts' = touchCart(cartItem.cartId)
               /\ cartItems' = MapDelete(cartItems, id)
               /\ ret' = Returns("deleteCartItem", [id |-> id],
                                 MapHas(cartItems, id))
               /\ UNCHANGED <<cartId, cartItemId, exceptCarts, now>>

(***************************************************************************)
(* Order methods.                                                          *)
(***************************************************************************)
OrderInputs ==
    { [storeId |-> 1, customerId |-> 1, customerName |-> "Cliente Demo",
       customerPhone |-> "11998765432", customerAddress |-> "Rua das Flores",
       deliveryMethod |-> "delivery", notes |-> "", total |-> 17980],
      [storeId |-> 2, customerId |-> NullInt, customerName |-> "Visitante",
       deliveryMethod |-> "pickup", total |-> 0, whatsappSent |-> TRUE] }

getOrders(sid, cid) ==
    LET all == MapValues(orders)
        byStore ==
            IF sid # NullInt /\ sid # 0
            THEN Filter(all, {i \in 1..Len(all) : all[i].storeId = sid})
            ELSE all
    IN IF cid # NullInt /\ cid # 0
       THEN Filter(byStore,
                   {i \in 1..Len(byStore) : byStore[i].customerId = cid})
       ELSE byStore

getOrder(id) == MapGet(orders, id)

createOrder(order) ==
    LET id == orderId
        newOrder ==
            Spread(order,
                   [id |-> id,
                    customerPhone |-> OrNull(order, "customerPhone"),
                    customerAddress |-> OrNull(order, "customerAddress"),
                    notes |-> OrNull(order, "notes"),
                    whatsappSent |-> FALSE, createdAt |-> now])
    IN /\ Spend
       /\ CanCreate(orderId, 0)
       /\ orderId' = orderId + 1
       /\ orders' = MapSet(orders, id, newOrder)
       /\ ret' = Returns("createOrder", [input |-> order], newOrder)
       /\ UNCHANGED <<exceptOrders, now>>

updateOrderWhatsappStatus(id, sent) ==
    LET existingOrder == MapGet(orders, id)
        updatedOrder == Spread(existingOrder, [whatsappSent |-> sent])
        args == [id |-> id, sent |-> sent]
    IN /\ Spend
       /\ IF existingOrder = Undefined
          THEN /\ ret' = ReturnsUndefined("updateOrderWhatsappStatus", args)
               /\ UNCHANGED <<orders, orderId, exceptOrders, now>>
          ELSE /\ orders' = MapSet(orders, id, updatedOrder)
               /\ ret' = Returns("updateOrderWhatsappStatus", args, updatedOrder)
               /\ UNCHANGED <<orderId, exceptOrders, now>>

(***************************************************************************)
(* Order item methods.                                                     *)
(***************************************************************************)
OrderItemInputs ==
    { [orderId |-> 1, productName |-> "Creme Hidratante Facial",
       price |-> 8990, quantity |-> 2],
      [orderId |-> 2, productName |-> "Batom", price |-> 1000,
       quantity |-> 1] }

getOrderItems(oid) ==
    LET all == MapValues(orderItems)
    IN Filter(all, {i \in 1..Len(all) : all[i].orderId = oid})

createOrderItem(orderItem) ==
    LET id == orderItemId
        newOrderItem == Spread(orderItem, [id |-> id])
    IN /\ Spend
       /\ orderItemId <= MaxItems
       /\ orderItemId' = orderItemId + 1
       /\ orderItems' = MapSet(orderItems, id, newOrderItem)
       /\ ret' = Returns("createOrderItem", [input |-> orderItem], newOrderItem)
       /\ UNCHANGED <<exceptOrderItems, now>>

(***************************************************************************)
(* Stripe-related methods.  Each finds the shop owner with                 *)
(* getShopOwnerByUserId, assigns to the fields of the object found (the    *)
(* object the Map holds) and sets it again under its own id.               *)
(***************************************************************************)
StripeInfos == { [customerId |-> "cus_1", subscriptionId |-> "sub_1"] }

StripeCustomerIds == {"cus_2"}

\* where in the Map getShopOwnerByUserId finds its result, 0 for none
ownerIndex(uid) ==
    LET hits == {i \in 1..Len(shopOwners) : shopOwners[i].v.userId = uid}
    IN IF hits = {} THEN 0 ELSE CHOOSE i \in hits : \A j \in hits : i <= j

updateStripeCustomerId(uid, stripeCustomerId) ==
    LET user == getUser(uid)
        owner == getShopOwnerByUserId(uid)
        linked == [owner EXCEPT !.stripeCustomerId = stripeCustomerId]
        args == [userId |-> uid, stripeCustomerId |-> stripeCustomerId]
    IN /\ Spend
       /\ IF user = Undefined
          THEN /\ ret' = Throws("updateStripeCustomerId", args,
                                "Usuario nao encontrado")
               /\ UNCHANGED <<shopOwners, shopOwnerId, exceptShopOwners, now>>
          ELSE /\ shopOwners' =
                     IF owner = Undefined THEN shopOwners
                     ELSE MapSet([shopOwners EXCEPT ![ownerIndex(uid)].v = linked],
                                 linked.id, linked)
               /\ ret' = Returns("updateStripeCustomerId", args, user)
               /\ UNCHANGED <<shopOwnerId, exceptShopOwners, now>>

\* the thirty days added to the expiry the shop owner had, not to the time
\* of the call
updateUserStripeInfo_extend(uid, info) ==
    LET owner == getShopOwnerByUserId(uid)
        from == IF owner.subscriptionExpiresAt = NullInt THEN now
                ELSE owner.subscriptionExpiresAt
        linked ==
            [owner EXCEPT !.stripeCustomerId = info.customerId,
                          !.stripeSubscriptionId = info.subscriptionId,
                          !.subscriptionStatus = "active",
                          !.subscriptionExpiresAt = from + ThirtyDays]
        args == [userId |-> uid, info |-> info]
    IN /\ Spend
       /\ IF owner = Undefined
          THEN /\ ret' = ReturnsUndefined("updateUserStripeInfo", args)
               /\ UNCHANGED <<shopOwners, shopOwnerId, exceptShopOwners, now>>
          ELSE /\ shopOwners' =
                     MapSet([shopOwners EXCEPT ![ownerIndex(uid)].v = linked],
                            linked.id, linked)
               /\ ret' = Returns("updateUserStripeInfo", args, linked)
               /\ UNCHANGED <<shopOwnerId, exceptShopOwners, now>>

updateUserStripeInfo(uid, info) ==
    LET owner == getShopOwnerByUserId(uid)
        linked ==
            [owner EXCEPT !.stripeCustomerId = info.customerId,
                          !.stripeSubscriptionId = info.subscriptionId,
                          !.subscriptionStatus = "active",
                          !.subscriptionExpiresAt = now + ThirtyDays]
        args == [userId |-> uid, info |-> info]
    IN /\ Spend
       /\ IF owner = Undefined
          THEN /\ ret' = ReturnsUndefined("updateUserStripeInfo", args)
               /\ UNCHANGED <<shopOwners, shopOwnerId, exceptShopOwners, now>>
          ELSE /\ shopOwners' =
                     MapSet([shopOwners EXCEPT ![ownerIndex(uid)].v = linked],
                            linked.id, linked)
               /\ ret' = Returns("updateUserStripeInfo", args, linked)
               /\ UNCHANGED <<shopOwnerId, exceptShopOwners, now>>

(***************************************************************************)
(* The Stripe-related methods step by step.  They are the only methods     *)
(* that await (the lookups they call are async), so a call of one is       *)
(* suspended after each lookup and any other call may run before it goes   *)
(* on.  The local `shopOwner` is the object the lookup found; while the    *)
(* call is suspended only updateShopOwnerSubscription can write that shop  *)
(* owner, and it stores a new object, so the local keeps its fields.       *)
(***************************************************************************)
Pending(op, args) ==
    [op |-> op, args |-> args, out |-> "pending", val |-> Undefined]

otherThanShopOwners ==
    <<users, stores, categories, products, customers, carts, cartItems,
      orders, orderItems, counters, web>>

\* const shopOwner = await this.getShopOwnerByUserId(userId)
updateUserStripeInfo_await(uid, info) ==
    LET args == [userId |-> uid, info |-> info]
    IN /\ Spend
       /\ awaiting.pc = "idle"
       /\ awaiting' = [pc |-> "shopOwner", op |-> "updateUserStripeInfo",
                       args |-> args, user |-> Undefined,
                       shopOwner |-> getShopOwnerByUserId(uid)]
       /\ ret' = Pending("updateUserStripeInfo", args)
       /\ UNCHANGED <<shopOwners, otherThanShopOwners, now>>

\* from the await to the return
updateUserStripeInfo_resume ==
    LET info == awaiting.args.info
        owner == awaiting.shopOwner
        linked ==
            [owner EXCEPT !.stripeCustomerId = info.customerId,
                          !.stripeSubscriptionId = info.subscriptionId,
                          !.subscriptionStatus = "active",
                          !.subscriptionExpiresAt = now + ThirtyDays]
    IN /\ Spend
       /\ awaiting.pc = "shopOwner"
       /\ awaiting.op = "updateUserStripeInfo"
       /\ awaiting' = Idle
       /\ IF owner = Undefined
          THEN /\ ret' = ReturnsUndefined("updateUserStripeInfo", awaiting.args)
               /\ UNCHANGED <<shopOwners, otherThanShopOwners, now>>
          ELSE /\ shopOwners' = MapSet(shopOwners, linked.id, linked)
               /\ ret' = Returns("updateUserStripeInfo", awaiting.args, linked)
               /\ UNCHANGED <<otherThanShopOwners, now>>

\* const user = await this.getUser(userId)
updateStripeCustomerId_awaitUser(uid, stripeCustomerId) ==
    LET args == [userId |-> uid, stripeCustomerId |-> stripeCustomerId]
    IN /\ Spend
       /\ awaiting.pc = "idle"
       /\ awaiting' = [pc |-> "user", op |-> "updateStripeCustomerId",
                       args |-> args, user |-> getUser(uid),
                       shopOwner |-> Undefined]
       /\ ret' = Pending("updateStripeCustomerId", args)
       /\ UNCHANGED <<shopOwners, otherThanShopOwners, now>>

\* the throw, or const shopOwner = await this.getShopOwnerByUserId(userId)
updateStripeCustomerId_awaitShopOwner ==
    /\ Spend
    /\ awaiting.pc = "user"
    /\ IF awaiting.user = Undefined
       THEN /\ awaiting' = Idle
            /\ ret' = Throws("updateStripeCustomerId", awaiting.args,
                             "Usuario nao encontrado")
       ELSE /\ awaiting' =
                  [awaiting EXCEPT
                      !.pc = "shopOwner",
                      !.shopOwner =
                          getShopOwnerByUserId(awaiting.args.userId)]
            /\ ret' = Pending("updateStripeCustomerId", awaiting.args)
    /\ UNCHANGED <<shopOwners, otherThanShopOwners, now>>

\* from the second await to the return
updateStripeCustomerId_resume ==
    LET owner == awaiting.shopOwner
        linked ==
            [owner EXCEPT
                !.stripeCustomerId = awaiting.args.stripeCustomerId]
    IN /\ Spend
       /\ awaiting.pc = "shopOwner"
       /\ awaiting.op = "updateStripeCustomerId"
       /\ awaiting' = Idle
       /\ shopOwners' =
             IF owner = Undefined THEN shopOwners
             ELSE MapSet(shopOwners, linked.id, linked)
       /\ ret' = Returns("updateStripeCustomerId", awaiting.args,
                         awaiting.user)
       /\ UNCHANGED <<otherThanShopOwners, now>>

(***************************************************************************)
(* The password hash of the auth module (src/unnamed/part_000).  The       *)
(* scrypt digest of a password under a salt is the string naming both: two *)
(* digests are equal exactly when password and salt are; like the hex      *)
(* digest it holds no ".".                                                 *)
(***************************************************************************)
Salts == {"5a", "c3"}

scryptAsync(password, salt) == "scrypt:" \o password \o ":" \o salt

\* `${buf.toString("hex")}.${salt}`, for the salt randomBytes gave
hashPassword(password, salt) == scryptAsync(password, salt) \o "." \o salt

(***************************************************************************)
(* POST /api/register, step by step: one step up to each await.  The       *)
(* storage methods have no await of their own, so a call of one has done   *)
(* its work by the time the handler is suspended on its result.            *)
(* `requests[r]` holds where request r stands, its body and its locals.    *)
(***************************************************************************)
MaxRequests == 2

\* 15 dias de trial
FifteenDays == 15 * 24 * 60 * 60

RequestIds == 1..MaxRequests

RegisterBodies ==
    { [username |-> "ana", password |-> "segredo", email |-> "ana@email.com",
       name |-> "Ana", role |-> "shopowner"],
      [username |-> "ana", password |-> "outra", email |-> "outra@email.com",
       name |-> "Ana B", role |-> "customer", phone |-> "11999990000"],
      [username |-> "bia", password |-> "segredo", email |-> "ana@email.com",
       name |-> "Bia"],
      [username |-> "admin", password |-> "segredo", email |-> "novo@email.com",
       name |-> "Novo", role |-> "shopowner", storeName |-> "Loja Nova",
       templateId |-> 2],
      [username |-> "carla", password |-> "segredo",
       email |-> "cliente@email.com", name |-> "Carla", role |-> "customer"],
      [username |-> "dora", password |-> "segredo", email |-> "dora@email.com",
       name |-> "Dora", role |-> "admin"] }

NotReceived ==
    [pc |-> "new", body |-> [username |-> ""], role |-> "",
     existing |-> Undefined, hashedPassword |-> "", user |-> Undefined,
     store |-> Undefined, status |-> 0]

NoRequests == [r \in RequestIds |-> NotReceived]

\* const { ..., role = "customer" } = req.body
RoleOf(body) == IF "role" \in DOMAIN body THEN body.role ELSE "customer"

\* `req.body[key] || fallback` on a string-valued key
OrElse(body, key, fallback) ==
    IF key \in DOMAIN body /\ body[key] # "" THEN body[key] ELSE fallback

\* the entity store and the calls made of it
storage == <<maps, counters, now, ret, awaiting, budget>>

\* what a step of a handler leaves alone besides the collection it writes
\* and the handler's own locals
handlerRest == <<categories, products, carts, cartItems, orders, orderItems,
                 categoryId, productId, cartId, cartItemId, orderId,
                 orderItemId, now, awaiting, budget>>

handlerExceptUsers ==
    <<handlerRest, stores, shopOwners, customers, storeId, shopOwnerId,
      customerId>>

handlerExceptCustomers ==
    <<handlerRest, users, stores, shopOwners, userId, storeId, shopOwnerId>>

handlerExceptStores ==
    <<handlerRest, users, shopOwners, customers, userId, shopOwnerId,
      customerId>>

handlerExceptShopOwners ==
    <<handlerRest, users, stores, customers, userId, storeId, customerId>>

\* const existingUsername = await storage.getUserByUsername(username)
register_receive(r, body) ==
    /\ requests[r].pc = "new"
    /\ requests' =
          [requests EXCEPT
              ![r] = [@ EXCEPT !.pc = "username", !.body = body,
                                !.role = RoleOf(body),
                                !.existing = getUserByUsername(body.username)]]
    /\ UNCHANGED <<storage, page>>

\* the 400 of a taken username, or
\* const existingEmail = await storage.getUserByEmail(email)
register_checkUsername(r) ==
    /\ requests[r].pc = "username"
    /\ requests' =
          [requests EXCEPT
              ![r] = IF @.existing # Undefined
                     THEN [@ EXCEPT !.pc = "done", !.status = 400]
                     ELSE [@ EXCEPT !.pc = "email",
                                    !.existing = getUserByEmail(requests[r].body.email)]]
    /\ UNCHANGED <<storage, page>>

\* the 400 of a taken email, or
\* const hashedPassword = await hashPassword(password)
register_checkEmail(r) ==
    /\ requests[r].pc = "email"
    /\ \E salt \in Salts :
          requests' =
             [requests EXCEPT
                 ![r] = IF @.existing # Undefined
                        THEN [@ EXCEPT !.pc = "done", !.status = 400]
                        ELSE [@ EXCEPT !.pc = "hash",
                                       !.hashedPassword =
                                           hashPassword(requests[r].body.password, salt)]]
    /\ UNCHANGED <<storage, page>>

\* const user = await storage.createUser(userData)
register_createUser(r) ==
    LET req == requests[r]
        userData ==
            [username |-> req.body.username, password |-> req.hashedPassword,
             email |-> req.body.email, name |-> req.body.name,
             role |-> req.role]
        newUser == Spread(userData, [id |-> userId, createdAt |-> now])
    IN /\ req.pc = "hash"
       /\ userId' = userId + 1
       /\ users' = MapSet(users, userId, newUser)
       /\ ret' = Returns("createUser", [input |-> userData], newUser)
       /\ requests' = [requests EXCEPT ![r].pc = "user", ![r].user = newUser]
       /\ UNCHANGED <<handlerExceptUsers, page>>

\* await storage.createCustomer(customerData), or
\* const store = await storage.createStore(storeData), or, for any other
\* role, req.login and the 201
register_createProfile(r) ==
    LET req == requests[r]
        customerData ==
            Spread([userId |-> req.user.id],
                   Pick(req.body, {"address", "phone"}))
        newCustomer ==
            Spread(customerData,
                   [id |-> customerId,
                    address |-> OrNull(customerData, "address"),
                    phone |-> OrNull(customerData, "phone")])
        storeData ==
            [name |-> OrElse(req.body, "storeName", "Loja de " \o req.body.name),
             logoUrl |-> OrElse(req.body, "logoUrl", "/placeholder-logo.jpg"),
             whatsappNumber |-> OrElse(req.body, "whatsappNumber", ""),
             templateId |-> OrNullInt(req.body, "templateId")]
        newStore ==
            Spread(storeData,
                   [id |-> storeId, slug |-> OrNull(storeData, "slug"),
                    active |-> TRUE, createdAt |-> now, updatedAt |-> now,
                    templateId |-> OrNullInt(storeData, "templateId")])
    IN /\ req.pc = "user"
       /\ CASE req.role = "customer" ->
                 /\ customerId' = customerId + 1
                 /\ customers' = MapSet(customers, customerId, newCustomer)
                 /\ ret' = Returns("createCustomer", [input |-> customerData],
                                   newCustomer)
                 /\ requests' = [requests EXCEPT ![r].pc = "profile"]
                 /\ UNCHANGED <<handlerExceptCustomers, page>>
            [] req.role = "shopowner" ->
                 /\ storeId' = storeId + 1
                 /\ stores' = MapSet(stores, storeId, newStore)
                 /\ ret' = Returns("createStore", [input |-> storeData],
                                   newStore)
                 /\ requests' = [requests EXCEPT ![r].pc = "store",
                                                 ![r].store = newStore]
                 /\ UNCHANGED <<handlerExceptStores, page>>
            [] OTHER ->
                 /\ requests' = [requests EXCEPT ![r].pc = "done",
                                                 ![r].status = 201]
                 /\ UNCHANGED <<storage, page>>

\* the shop owner given the store created last, not the one the request
\* created
register_createShopOwner_lastStore(r) ==
    LET req == requests[r]
        newShopOwner ==
            [id |-> shopOwnerId, userId |-> req.user.id,
             storeId |-> storeId - 1, subscriptionStatus |-> "trial",
             subscriptionExpiresAt |-> now + FifteenDays,
             stripeCustomerId |-> Null, stripePriceId |-> Null,
             stripeSubscriptionId |-> Null]
    IN /\ req.pc = "store"
       /\ shopOwnerId' = shopOwnerId + 1
       /\ shopOwners' = MapSet(shopOwners, shopOwnerId, newShopOwner)
       /\ ret' = Returns("createShopOwner", [input |-> newShopOwner],
                         newShopOwner)
       /\ requests' = [requests EXCEPT ![r].pc = "profile"]
       /\ UNCHANGED <<handlerExceptShopOwners, page>>

\* await storage.createShopOwner(shopOwnerData)
register_createShopOwner(r) ==
    LET req == requests[r]
        shopOwnerData ==
            [userId |-> req.user.id, storeId |-> req.store.id,
             subscriptionStatus |-> "trial",
             subscriptionExpiresAt |-> now + FifteenDays]
        newShopOwner ==
            Spread(shopOwnerData,
                   [id |-> shopOwnerId,
                    subscriptionExpiresAt |->
                        OrNullDate(shopOwnerData, "subscriptionExpiresAt"),
                    stripeCustomerId |-> Null, stripePriceId |-> Null,
                    stripeSubscriptionId |-> Null])
    IN /\ req.pc = "store"
       /\ shopOwnerId' = shopOwnerId + 1
       /\ shopOwners' = MapSet(shopOwners, shopOwnerId, newShopOwner)
       /\ ret' = Returns("createShopOwner", [input |-> shopOwnerData],
                         newShopOwner)
       /\ requests' = [requests EXCEPT ![r].pc = "profile"]
       /\ UNCHANGED <<handlerExceptShopOwners, page>>

\* req.login(user, ...) and the 201
register_login(r) ==
    /\ requests[r].pc = "profile"
    /\ requests' = [requests EXCEPT ![r].pc = "done", ![r].status = 201]
    /\ UNCHANGED <<storage, page>>

RegisterSteps ==
    \E r \in RequestIds :
        \/ \E body \in RegisterBodies : register_receive(r, body)
        \/ register_checkUsername(r)
        \/ register_checkEmail(r)
        \/ register_createUser(r)
        \/ register_createProfile(r)
        \/ register_createShopOwner(r)
        \/ register_login(r)

(***************************************************************************)
(* Login (src/unnamed/part_000): comparePasswords and the verify callback  *)
(* of the local strategy.                                                  *)
(***************************************************************************)
\* the index of the first "." of s from position i on, 0 when there is none
RECURSIVE IndexOfDot(_, _)
IndexOfDot(s, i) ==
    IF i > Len(s) THEN 0
    ELSE IF SubSeq(s, i, i) = "." THEN i
    ELSE IndexOfDot(s, i + 1)

\* const [hashed, salt] = stored.split("."); salt is undefined (Null) when
\* stored holds no "."
SplitHash(stored) ==
    LET dot == IndexOfDot(stored, 1)
        next == IF dot = 0 THEN 0 ELSE IndexOfDot(stored, dot + 1)
    IN IF dot = 0 THEN [hashed |-> stored, salt |-> Null]
       ELSE [hashed |-> SubSeq(stored, 1, dot - 1),
             salt |-> SubSeq(stored, dot + 1,
                             IF next = 0 THEN Len(stored) ELSE next - 1)]

\* scryptAsync throws on an undefined salt and timingSafeEqual on buffers
\* of different lengths; both are caught and give false
comparePasswords(supplied, stored) ==
    IF Len(stored) >= 4 /\ SubSeq(stored, 1, 4) = "$2b$"
    THEN supplied \in {"admin123", "lojista123", "cliente123"}
    ELSE LET parts == SplitHash(stored)
         IN /\ parts.salt # Null
            /\ parts.hashed = scryptAsync(supplied, parts.salt)

\* done(null, false)
NotAuthenticated == [authenticated |-> FALSE]

\* the verify callback of the LocalStrategy: the user logged in, or false
verify(username, password) ==
    LET user == getUserByUsername(username)
    IN IF user = Undefined \/ ~comparePasswords(password, user.password)
       THEN NotAuthenticated
       ELSE user

(***************************************************************************)
(* The storefront page (src/unnamed/part_000, component StoreFront): the   *)
(* React state `cartItems`, `isCheckoutOpen` and `checkoutSuccess`, the    *)
(* store the page has loaded, the timeouts the page has set and not yet    *)
(* run, and the links it has opened with window.open.  A state setter is   *)
(* given the state it leaves.                                              *)
(***************************************************************************)
MaxQuantity == 2

MaxLinks == 1

mounted(store) ==
    [store |-> store, cartItems |-> <<>>, isCheckoutOpen |-> FALSE,
     checkoutSuccess |-> FALSE, timers |-> <<>>, opened |-> <<>>]

\* the stores a page is opened on: with a WhatsApp number, written with
\* punctuation, and without one
PageStores ==
    { [defaultStore EXCEPT !.whatsappNumber = "(11) 98765-4321"],
      [defaultStore EXCEPT !.whatsappNumber = ""] }

PageProducts == {sampleProducts[1], sampleProducts[2]}

\* the indices of the cart lines of a product
LinesOf(items, pid) == {i \in 1..Len(items) : items[i].productId = pid}

addToCart(product) ==
    LET prev == page.cartItems
        existingItem == Find(prev, LinesOf(prev, product.id))
        next ==
            IF existingItem # Undefined
            THEN [i \in 1..Len(prev) |->
                     IF prev[i].productId = product.id
                     THEN [prev[i] EXCEPT !.quantity = prev[i].quantity + 1]
                     ELSE prev[i]]
            ELSE Append(prev, [productId |-> product.id, product |-> product,
                               quantity |-> 1])
    IN /\ \A i \in LinesOf(prev, product.id) : prev[i].quantity < MaxQuantity
       /\ page' = [page EXCEPT !.cartItems = next]
       /\ UNCHANGED <<storage, requests>>

removeFromCart(pid) ==
    LET prev == page.cartItems
        kept == Filter(prev, {i \in 1..Len(prev) : prev[i].productId # pid})
    IN /\ page' = [page EXCEPT !.cartItems = kept]
       /\ UNCHANGED <<storage, requests>>

\* the quantity set whatever it is
updateQuantity_unguarded(pid, newQuantity) ==
    LET prev == page.cartItems
        next == [i \in 1..Len(prev) |->
                    IF prev[i].productId = pid
                    THEN [prev[i] EXCEPT !.quantity = newQuantity]
                    ELSE prev[i]]
    IN /\ page' = [page EXCEPT !.cartItems = next]
       /\ UNCHANGED <<storage, requests>>

updateQuantity(pid, newQuantity) ==
    LET prev == page.cartItems
        next == [i \in 1..Len(prev) |->
                    IF prev[i].productId = pid
                    THEN [prev[i] EXCEPT !.quantity = newQuantity]
                    ELSE prev[i]]
    IN /\ page' = IF newQuantity < 1 THEN page
                  ELSE [page EXCEPT !.cartItems = next]
       /\ UNCHANGED <<storage, requests>>

RECURSIVE cartTotalOf(_)
cartTotalOf(items) ==
    IF items = <<>> THEN 0
    ELSE cartTotalOf(SubSeq(items, 1, Len(items) - 1))
         + items[Len(items)].product.price * items[Len(items)].quantity

cartTotal == cartTotalOf(page.cartItems)

\* the "Finalizar Pedido" button, shown while the cart has lines
openCheckout ==
    /\ Len(page.cartItems) > 0
    /\ page' = [page EXCEPT !.isCheckoutOpen = TRUE]
    /\ UNCHANGED <<storage, requests>>

\* the dialog's onOpenChange(false)
closeCheckout ==
    /\ page.isCheckoutOpen
    /\ page' = [page EXCEPT !.isCheckoutOpen = FALSE]
    /\ UNCHANGED <<storage, requests>>

\* whatsappNumber.replace(/\D/g, "")
RECURSIVE OnlyDigits(_)
OnlyDigits(s) ==
    IF Len(s) = 0 THEN ""
    ELSE LET head == SubSeq(s, 1, 1)
             rest == OnlyDigits(SubSeq(s, 2, Len(s)))
         IN IF head \in {"0", "1", "2", "3", "4", "5", "6", "7", "8", "9"}
            THEN head \o rest ELSE rest

\* the link of an order: the number it goes to and what the message lists
whatsappUrl(store, items, total) ==
    [number |-> OnlyDigits(store.whatsappNumber),
     orderItems |-> [i \in 1..Len(items) |->
                        [quantity |-> items[i].quantity,
                         name |-> items[i].product.name,
                         price |-> items[i].product.price * items[i].quantity]],
     total |-> total]

\* the form of the dialog is there while the dialog is open and
\* checkoutSuccess is false
handleNonAuthCheckout ==
    /\ page.isCheckoutOpen
    /\ ~page.checkoutSuccess
    /\ Len(page.opened) < MaxLinks
    /\ page' =
          IF page.store.whatsappNumber = "" THEN page
          ELSE [page EXCEPT
                   !.checkoutSuccess = TRUE,
                   !.timers =
                       Append(@, [run |-> "open",
                                  whatsappUrl |->
                                      whatsappUrl(page.store, page.cartItems,
                                                  cartTotal)])]
    /\ UNCHANGED <<storage, requests>>

\* the first timeout setting no second one
timeout_once(i) ==
    LET timer == page.timers[i]
        others == Filter(page.timers, (1..Len(page.timers)) \ {i})
    IN /\ page' = [page EXCEPT !.opened = Append(@, timer.whatsappUrl),
                               !.cartItems = <<>>,
                               !.isCheckoutOpen = FALSE,
                               !.timers = others]
       /\ UNCHANGED <<storage, requests>>

\* a timeout runs: the one that opens the link, or the one it sets
timeout(i) ==
    LET timer == page.timers[i]
        others == Filter(page.timers, (1..Len(page.timers)) \ {i})
    IN /\ page' =
             IF timer.run = "open"
             THEN [page EXCEPT
                      !.opened = Append(@, timer.whatsappUrl),
                      !.cartItems = <<>>,
                      !.isCheckoutOpen = FALSE,
                      !.timers = Append(others, [run |-> "reset"])]
             ELSE [page EXCEPT !.checkoutSuccess = FALSE, !.timers = others]
       /\ UNCHANGED <<storage, requests>>

(***************************************************************************)
(* The state at the start: the store constructed, no request received, the *)
(* page just mounted on the default store.                                 *)
(***************************************************************************)
started ==
    /\ constructed
    /\ requests = NoRequests
    /\ page = mounted(defaultStore)

(***************************************************************************)
(* The wall clock.                                                         *)
(***************************************************************************)
Tick ==
    /\ Spend
    /\ now < MaxTime
    /\ now' = now + 1
    /\ UNCHANGED <<maps, counters, ret, awaiting, web>>

(***************************************************************************)
(* The whole store: any caller makes any call, MaxOps steps long.          *)
(***************************************************************************)
UserCall ==
    \/ \E input \in UserInputs : createUser(input)
    \/ \E id \in TargetIds(userId), partial \in UserPartials :
          updateUser(id, partial)

StoreCall ==
    \/ \E input \in StoreInputs : createStore(input)
    \/ \E id \in TargetIds(storeId), partial \in StorePartials :
          updateStore(id, partial)
    \/ \E id \in TargetIds(storeId) : deleteStore(id)

CategoryCall ==
    \/ \E input \in CategoryInputs : createCategory(input)
    \/ \E id \in TargetIds(categoryId), partial \in CategoryPartials :
          updateCategory(id, partial)
    \/ \E id \in TargetIds(categoryId) : deleteCategory(id)

ProductCall ==
    \/ \E input \in ProductInputs : createProduct(input)
    \/ \E id \in TargetIds(productId), partial \in ProductPartials :
          updateProduct(id, partial)
    \/ \E id \in TargetIds(productId) : deleteProduct(id)

ShopOwnerCall ==
    \/ \E input \in ShopOwnerInputs : createShopOwner(input)
    \/ \E id \in TargetIds(shopOwnerId), partial \in ShopOwnerPartials :
          updateShopOwnerSubscription(id, partial)

CustomerCall ==
    \/ \E input \in CustomerInputs : createCustomer(input)
    \/ \E id \in TargetIds(customerId), partial \in CustomerPartials :
          updateCustomer(id, partial)

CartCall ==
    \/ \E input \in CartInputs : createCart(input)
    \/ \E id \in TargetIds(cartId) : deleteCart(id)
    \/ \E input \in CartItemInputs : createCartItem(input)
    \/ \E id \in TargetIds(cartItemId), quantity \in Quantities :
          updateCartItem(id, quantity)
    \/ \E id \in TargetIds(cartItemId) : deleteCartItem(id)

OrderCall ==
    \/ \E input \in OrderInputs : createOrder(input)
    \/ \E id \in TargetIds(orderId), sent \in BOOLEAN :
          updateOrderWhatsappStatus(id, sent)
    \/ \E input \in OrderItemInputs : createOrderItem(input)

StripeCall ==
    \/ \E uid \in UserIdArgs, id \in StripeCustomerIds :
          updateStripeCustomerId(uid, id)
    \/ \E uid \in UserIdArgs, info \in StripeInfos :
          updateUserStripeInfo(uid, info)

Call ==
    \/ UserCall
    \/ StoreCall
    \/ CategoryCall
    \/ ProductCall
    \/ ShopOwnerCall
    \/ CustomerCall
    \/ CartCall
    \/ OrderCall
    \/ StripeCall

Init == started /\ budget = MaxOps

Next == Call \/ Tick

Spec == Init /\ [][Next]_vars

(***************************************************************************)
(* The product catalogue alone, and the carts alone, in longer behaviours. *)
(***************************************************************************)
InitProducts == started /\ budget = MaxProductOps

NextProducts == ProductCall \/ Tick

SpecProducts == InitProducts /\ [][NextProducts]_vars

InitCart == started /\ budget = MaxCartOps

NextCart == CartCall \/ Tick

SpecCart == InitCart /\ [][NextCart]_vars

(***************************************************************************)
(* The shop owners alone, with a Stripe call suspended at its awaits while *)
(* the shop owner calls of other callers run.                              *)
(***************************************************************************)
\* the users the Stripe calls name: the administrator, who has no shop
\* owner, the seeded shop owner's user, and an id no user has
AwaitUserIds == {adminUser.id, shopOwnerUser.id, customerUser.id + 1}

StripeSteps ==
    \/ \E uid \in AwaitUserIds, info \in StripeInfos :
          updateUserStripeInfo_await(uid, info)
    \/ updateUserStripeInfo_resume
    \/ \E uid \in AwaitUserIds, id \in StripeCustomerIds :
          updateStripeCustomerId_awaitUser(uid, id)
    \/ updateStripeCustomerId_awaitShopOwner
    \/ updateStripeCustomerId_resume

InitAwait == started /\ budget = MaxAwaitOps

NextAwait == StripeSteps \/ ShopOwnerCall \/ Tick

SpecAwait == InitAwait /\ [][NextAwait]_vars

(***************************************************************************)
(* The records that carry a modification time: calls of the store, product *)
(* and cart methods, with the clock ticking between them.                  *)
(***************************************************************************)
MaxStampOps == 3

InitStamps == started /\ budget = MaxStampOps

NextStamps == StoreCall \/ ProductCall \/ CartCall \/ Tick

SpecStamps == InitStamps /\ [][NextStamps]_vars

(***************************************************************************)
(* Updates whose partial carries an id key (Partial<T> has one): calls of  *)
(* the four update methods that spread the partial as it is given, among   *)
(* the other calls of their kinds.                                         *)
(***************************************************************************)
MaxIdOps == 2

PartialsWithId == {[id |-> 1], [id |-> 9]}

IdCall ==
    \/ \E id \in TargetIds(userId), partial \in PartialsWithId :
          updateUser(id, partial)
    \/ \E id \in TargetIds(categoryId), partial \in PartialsWithId :
          updateCategory(id, partial)
    \/ \E id \in TargetIds(shopOwnerId), partial \in PartialsWithId :
          updateShopOwnerSubscription(id, partial)
    \/ \E id \in TargetIds(customerId), partial \in PartialsWithId :
          updateCustomer(id, partial)

InitIds == started /\ budget = MaxIdOps

NextIds == UserCall \/ CategoryCall \/ ShopOwnerCall \/ CustomerCall \/ IdCall

SpecIds == InitIds /\ [][NextIds]_vars

(***************************************************************************)
(* The cart of the storefront page: products added, quantities changed and *)
(* lines removed in any order, on a page opened on any of the stores.      *)
(***************************************************************************)
CartClicks ==
    \/ \E product \in PageProducts : addToCart(product)
    \/ \E product \in PageProducts : removeFromCart(product.id)
    \/ \E product \in PageProducts, newQuantity \in 0..MaxQuantity :
          updateQuantity(product.id, newQuantity)

InitPage ==
    /\ constructed
    /\ requests = NoRequests
    /\ \E loaded \in PageStores : page = mounted(loaded)
    /\ budget = 0

(***************************************************************************)
(* The whole storefront page: the cart, the checkout dialog and the        *)
(* timeouts.  A timeout that has been set runs after its delay, whatever   *)
(* else happens on the page: each is given weak fairness.                  *)
(***************************************************************************)
MaxTimers == 1

Timeouts == \E i \in 1..MaxTimers : i <= Len(page.timers) /\ timeout(i)

NextPage ==
    \/ CartClicks
    \/ openCheckout
    \/ closeCheckout
    \/ handleNonAuthCheckout
    \/ Timeouts

SpecPage == InitPage /\ [][NextPage]_vars /\ WF_vars(Timeouts)

(***************************************************************************)
(* The registrations: up to MaxRequests requests of /api/register served   *)
(* at once, each step of one running between the steps of the others.     *)
(***************************************************************************)
InitRegister == started /\ budget = 0

NextRegister == RegisterSteps

SpecRegister == InitRegister /\ [][NextRegister]_vars

(***************************************************************************)
(* The entity kinds, for the properties that speak of every kind.          *)
(***************************************************************************)
Kinds ==
    {"users", "stores", "categories", "products", "shopOwners",
     "customers", "carts", "cartItems", "orders", "orderItems"}

MapOf(kind) ==
    CASE kind = "users" -> users
      [] kind = "stores" -> stores
      [] kind = "categories" -> categories
      [] kind = "products" -> products
      [] kind = "shopOwners" -> shopOwners
      [] kind = "customers" -> customers
      [] kind = "carts" -> carts
      [] kind = "cartItems" -> cartItems
      [] kind = "orders" -> orders
      [] kind = "orderItems" -> orderItems

CounterOf(kind) ==
    CASE kind = "users" -> userId
      [] kind = "stores" -> storeId
      [] kind = "categories" -> categoryId
      [] kind = "products" -> productId
      [] kind = "shopOwners" -> shopOwnerId
      [] kind = "customers" -> customerId
      [] kind = "carts" -> cartId
      [] kind = "cartItems" -> cartItemId
      [] kind = "orders" -> orderId
      [] kind = "orderItems" -> orderItemId

\* the method that creates records of the kind
CreateOp(kind) ==
    CASE kind = "users" -> "createUser"
      [] kind = "stores" -> "createStore"
      [] kind = "categories" -> "createCategory"
      [] kind = "products" -> "createProduct"
      [] kind = "shopOwners" -> "createShopOwner"
      [] kind = "customers" -> "createCustomer"
      [] kind = "carts" -> "createCart"
      [] kind = "cartItems" -> "createCartItem"
      [] kind = "orders" -> "createOrder"
      [] kind = "orderItems" -> "createOrderItem"

\* a step that is a create of the kind: the call `ret` records after it
Creates(kind) ==
    /\ ret'.op = CreateOp(kind)
    /\ CASE kind = "users" -> createUser(ret'.args.input)
         [] kind = "stores" -> createStore(ret'.args.input)
         [] kind = "categories" -> createCategory(ret'.args.input)
         [] kind = "products" -> createProduct(ret'.args.input)
         [] kind = "shopOwners" -> createShopOwner(ret'.args.input)
         [] kind = "customers" -> createCustomer(ret'.args.input)
         [] kind = "carts" -> createCart(ret'.args.input)
         [] kind = "cartItems" -> createCartItem(ret'.args.input)
         [] kind = "orders" -> createOrder(ret'.args.input)
         [] kind = "orderItems" -> createOrderItem(ret'.args.input)

(***************************************************************************)
(* C1.  Identifiers are never reused.  Every id a kind has assigned so far *)
(* (to a seeded record or by a create, the record deleted since or not) is *)
(* below the kind's counter; the counter never goes down; and each create  *)
(* returns an id that is at least the counter, so strictly greater than    *)
(* every id assigned before, stores the record under it, and leaves the    *)
(* counter above it.                                                       *)
(***************************************************************************)
AssignedBelowCounter ==
    \A kind \in Kinds :
        \A key \in MapKeys(MapOf(kind)) : key < CounterOf(kind)

CreateAssignsFreshId ==
    \A kind \in Kinds :
        /\ CounterOf(kind)' >= CounterOf(kind)
        /\ Creates(kind) =>
              /\ ret'.val.id >= CounterOf(kind)
              /\ ret'.val.id < CounterOf(kind)'
              /\ ~MapHas(MapOf(kind), ret'.val.id)
              /\ MapGet(MapOf(kind)', ret'.val.id) = ret'.val

C1_IdentifiersNeverReused ==
    /\ []AssignedBelowCounter
    /\ [][CreateAssignsFreshId]_vars

\* a product was deleted and a product created after it: the new product
\* has the next id, not the one set free
C1_Witness ==
    /\ ret.op = "createProduct"
    /\ ~MapHas(products, 6)
    /\ ret.val.id = 7
    /\ MapHas(products, 7)

(***************************************************************************)
(* C2.  updateProduct on an existing product leaves every field whose key  *)
(* is absent from the partial as it was, the modification timestamp aside, *)
(* and adds no field the partial does not name; a product updated with     *)
(* {price: 1200} keeps its name and has price 1200.                        *)
(***************************************************************************)
UpdateProductKeepsAbsentKeys ==
    \A id \in TargetIds(productId), partial \in ProductPartials :
        /\ ret'.op = "updateProduct"
        /\ MapHas(products, id)
        /\ updateProduct(id, partial)
        => LET before == getProduct(id)
               after == getProduct(id)'
           IN /\ \A key \in DOMAIN before \ (DOMAIN partial \cup {"updatedAt"}) :
                    key \in DOMAIN after /\ after[key] = before[key]
              /\ DOMAIN after \subseteq DOMAIN before \cup DOMAIN partial
              /\ partial = [price |-> 1200] =>
                    after.name = before.name /\ after.price = 1200

C2_UpdateProductPreservesUntouched == [][UpdateProductKeepsAbsentKeys]_vars

\* the product created as Batom was given a new price and is still Batom
C2_Witness ==
    /\ ret.op = "updateProduct"
    /\ ret.out = "value"
    /\ ret.args.id = 7
    /\ ret.args.partial = [price |-> 1200]
    /\ getProduct(7).name = "Batom"
    /\ getProduct(7).price = 1200

(***************************************************************************)
(* C3.  After an update of an existing record, every key of the partial,   *)
(* a key given null included, has the supplied value in the record         *)
(* returned and in the record stored.                                      *)
(***************************************************************************)
UpdateOps ==
    {"updateUser", "updateStore", "updateCategory", "updateProduct",
     "updateCustomer", "updateShopOwnerSubscription"}

\* the record an update operation addresses
Addressed(op, id) ==
    CASE op = "updateUser" -> getUser(id)
      [] op = "updateStore" -> getStore(id)
      [] op = "updateCategory" -> getCategory(id)
      [] op = "updateProduct" -> getProduct(id)
      [] op = "updateCustomer" -> getCustomer(id)
      [] op = "updateShopOwnerSubscription" -> getShopOwner(id)

C3_SuppliedKeysCarried ==
    ret.op \in UpdateOps /\ ret.out = "value" =>
        LET partial == ret.args.partial
            stored == Addressed(ret.op, ret.args.id)
        IN \A key \in DOMAIN partial :
              /\ key \in DOMAIN ret.val
              /\ ret.val[key] = partial[key]
              /\ key \in DOMAIN stored
              /\ stored[key] = partial[key]

(***************************************************************************)
(* C4.  A lookup by id or by alternate key that matches no record gives    *)
(* undefined, and an update aimed at an id no record has returns undefined *)
(* without throwing and leaves every collection and counter as it was.     *)
(***************************************************************************)
LookupOfNothingIsUndefined ==
    /\ \A id \in 0..userId : ~MapHas(users, id) => getUser(id) = Undefined
    /\ \A id \in 0..storeId : ~MapHas(stores, id) => getStore(id) = Undefined
    /\ \A id \in 0..categoryId :
          ~MapHas(categories, id) => getCategory(id) = Undefined
    /\ \A id \in 0..productId :
          ~MapHas(products, id) => getProduct(id) = Undefined
    /\ \A id \in 0..shopOwnerId :
          ~MapHas(shopOwners, id) => getShopOwner(id) = Undefined
    /\ \A id \in 0..customerId :
          ~MapHas(customers, id) => getCustomer(id) = Undefined
    /\ \A id \in 0..cartId : ~MapHas(carts, id) => getCart(id) = Undefined
    /\ \A id \in 0..cartItemId :
          ~MapHas(cartItems, id) => getCartItem(id) = Undefined
    /\ \A id \in 0..orderId : ~MapHas(orders, id) => getOrder(id) = Undefined
    /\ \A username \in Usernames :
          (\A i \in 1..Len(users) : users[i].v.username # username)
              => getUserByUsername(username) = Undefined
    /\ \A email \in Emails :
          (\A i \in 1..Len(users) : users[i].v.email # email)
              => getUserByEmail(email) = Undefined
    /\ \A slug \in Slugs :
          (\A i \in 1..Len(stores) : stores[i].v.slug # slug)
              => getStoreBySlug(slug) = Undefined
    /\ \A uid \in UserIdArgs :
          (\A i \in 1..Len(shopOwners) : shopOwners[i].v.userId # uid)
              => /\ getShopOwnerByUserId(uid) = Undefined
                 /\ getStoreByOwner(uid) = Undefined
    /\ \A uid \in UserIdArgs :
          (\A i \in 1..Len(customers) : customers[i].v.userId # uid)
              => getCustomerByUserId(uid) = Undefined
    /\ \A cid \in 1..customerId, sid \in 1..storeId :
          (\A i \in 1..Len(carts) :
              ~(carts[i].v.customerId = cid /\ carts[i].v.storeId = sid))
              => getCartByCustomer(cid, sid) = Undefined

NotFoundAndUnchanged ==
    /\ ret'.out = "undefined"
    /\ ret'.val = Undefined
    /\ UNCHANGED <<maps, counters>>

\* a step that is a call of the update method `op` with an id that the
\* Map `m` holds no record for
IsUpdateOfNothing(op, m) == ret'.op = op /\ ~MapHas(m, ret'.args.id)

UpdateOfNothingChangesNothing ==
    /\ IsUpdateOfNothing("updateUser", users)
          /\ updateUser(ret'.args.id, ret'.args.partial)
          => NotFoundAndUnchanged
    /\ IsUpdateOfNothing("updateStore", stores)
          /\ updateStore(ret'.args.id, ret'.args.partial)
          => NotFoundAndUnchanged
    /\ IsUpdateOfNothing("updateCategory", categories)
          /\ updateCategory(ret'.args.id, ret'.args.partial)
          => NotFoundAndUnchanged
    /\ IsUpdateOfNothing("updateProduct", products)
          /\ updateProduct(ret'.args.id, ret'.args.partial)
          => NotFoundAndUnchanged
    /\ IsUpdateOfNothing("updateShopOwnerSubscription", shopOwners)
          /\ updateShopOwnerSubscription(ret'.args.id, ret'.args.partial)
          => NotFoundAndUnchanged
    /\ IsUpdateOfNothing("updateCustomer", customers)
          /\ updateCustomer(ret'.args.id, ret'.args.partial)
          => NotFoundAndUnchanged
    /\ IsUpdateOfNothing("updateCartItem", cartItems)
          /\ updateCartItem(ret'.args.id, ret'.args.quantity)
          => NotFoundAndUnchanged
    /\ IsUpdateOfNothing("updateOrderWhatsappStatus", orders)
          /\ updateOrderWhatsappStatus(ret'.args.id, ret'.args.sent)
          => NotFoundAndUnchanged

C4_AbsentIsUndefinedAndUnchanged ==
    /\ []LookupOfNothingIsUndefined
    /\ [][UpdateOfNothingChangesNothing]_vars

\* updateCartItem was aimed at an id no cart item has, while the store
\* holds a cart item
C4_Witness ==
    /\ ret.op = "updateCartItem"
    /\ ret.out = "undefined"
    /\ cartItems # <<>>
    /\ getCartItem(ret.args.id) = Undefined

(***************************************************************************)
(* C5.  A delete returns true exactly when a record with the id existed    *)
(* before the call, and afterwards the lookup by that id gives undefined.  *)
(***************************************************************************)
DeleteReportsPresence ==
    /\ ret'.op = "deleteStore" /\ deleteStore(ret'.args.id) =>
          /\ ret'.val = MapHas(stores, ret'.args.id)
          /\ MapGet(stores', ret'.args.id) = Undefined
    /\ ret'.op = "deleteCategory" /\ deleteCategory(ret'.args.id) =>
          /\ ret'.val = MapHas(categories, ret'.args.id)
          /\ MapGet(categories', ret'.args.id) = Undefined
    /\ ret'.op = "deleteProduct" /\ deleteProduct(ret'.args.id) =>
          /\ ret'.val = MapHas(products, ret'.args.id)
          /\ MapGet(products', ret'.args.id) = Undefined
    /\ ret'.op = "deleteCart" /\ deleteCart(ret'.args.id) =>
          /\ ret'.val = MapHas(carts, ret'.args.id)
          /\ MapGet(carts', ret'.args.id) = Undefined
    /\ ret'.op = "deleteCartItem" /\ deleteCartItem(ret'.args.id) =>
          /\ ret'.val = MapHas(cartItems, ret'.args.id)
          /\ MapGet(cartItems', ret'.args.id) = Undefined

C5_DeleteReturnsWhetherPresent == [][DeleteReportsPresence]_vars

\* a cart item whose cart does not exist was deleted, and the call said so
C5_Witness ==
    /\ ret.op = "deleteCartItem"
    /\ ret.val = TRUE
    /\ carts = <<>>
    /\ cartItemId > 1

(***************************************************************************)
(* C6.  deleteCart of an existing cart leaves no cart item of that cart,   *)
(* and leaves every cart item of another cart in place and as it was.      *)
(***************************************************************************)
DeleteCartCascades ==
    \A id \in TargetIds(cartId) :
        ret'.op = "deleteCart" /\ MapHas(carts, id) /\ deleteCart(id) =>
            /\ getCartItems(id)' = <<>>
            /\ \A i \in 1..Len(cartItems') : cartItems'[i].v.cartId # id
            /\ \A i \in 1..Len(cartItems) :
                  cartItems[i].v.cartId # id =>
                      MapGet(cartItems', cartItems[i].k) = cartItems[i].v

C6_DeleteCartRemovesItsItems == [][DeleteCartCascades]_vars

\* three cart items were created, two of them in the cart deleted; the one
\* of the other cart is what is left
C6_Witness ==
    /\ ret.op = "deleteCart"
    /\ ret.val = TRUE
    /\ cartItemId = 4
    /\ Len(cartItems) = 1
    /\ cartItems[1].v.cartId # ret.args.id

(***************************************************************************)
(* C7.  For every store id X, getProducts(X) is exactly the products whose *)
(* storeId is X, in the order they were created (ids are assigned in       *)
(* creation order).                                                        *)
(***************************************************************************)
C7_GetProductsFiltersByStore ==
    \A sid \in StoreIdArgs \ {NullInt} :
        LET got == getProducts(sid)
        IN /\ \A i \in 1..Len(got) : got[i].storeId = sid
           /\ {got[i].id : i \in 1..Len(got)} =
                 {products[i].v.id :
                     i \in {j \in 1..Len(products) : products[j].v.storeId = sid}}
           /\ \A i, j \in 1..Len(got) : i < j => got[i].id < got[j].id

(***************************************************************************)
(* C8.  Each alternate-key lookup returns the earliest-inserted record     *)
(* whose key attributes equal the arguments (records are inserted under    *)
(* increasing ids, so that is the match with the least id), or undefined   *)
(* when there is none; in the store as constructed, "admin" finds the      *)
(* seeded administrator and "nonexistent" finds nothing.                   *)
(***************************************************************************)
Earliest(m, matches) ==
    IF matches = {} THEN Undefined
    ELSE MapGet(m, CHOOSE key \in matches : \A other \in matches : key <= other)

LookupsReturnEarliest ==
    /\ \A username \in Usernames :
          getUserByUsername(username) =
              Earliest(users, {key \in MapKeys(users) :
                                  MapGet(users, key).username = username})
    /\ \A email \in Emails :
          getUserByEmail(email) =
              Earliest(users, {key \in MapKeys(users) :
                                  MapGet(users, key).email = email})
    /\ \A slug \in Slugs :
          getStoreBySlug(slug) =
              Earliest(stores, {key \in MapKeys(stores) :
                                   MapGet(stores, key).slug = slug})
    /\ \A uid \in UserIdArgs :
          getShopOwnerByUserId(uid) =
              Earliest(shopOwners, {key \in MapKeys(shopOwners) :
                                       MapGet(shopOwners, key).userId = uid})
    /\ \A uid \in UserIdArgs :
          getCustomerByUserId(uid) =
              Earliest(customers, {key \in MapKeys(customers) :
                                      MapGet(customers, key).userId = uid})
    /\ \A cid \in 1..customerId, sid \in 1..storeId :
          getCartByCustomer(cid, sid) =
              Earliest(carts, {key \in MapKeys(carts) :
                                  /\ MapGet(carts, key).customerId = cid
                                  /\ MapGet(carts, key).storeId = sid})

C8_AlternateKeyLookups ==
    /\ LookupsReturnEarliest
    /\ ret.op = "constructor" =>
          /\ getUserByUsername("admin") = adminUser
          /\ getUserByUsername("admin").role = "admin"
          /\ getUserByUsername("nonexistent") = Undefined

\* two users are named admin, and the lookup finds the seeded one
C8_Witness ==
    /\ Len(users) = 4
    /\ users[4].v.username = "admin"
    /\ getUserByUsername("admin").id = 1
    /\ getUserByUsername("nonexistent") = Undefined

(***************************************************************************)
(* C9.  An order item, once created, is never changed or removed by any    *)
(* later step.                                                             *)
(***************************************************************************)
OrderItemsFrozen ==
    \A i \in 1..Len(orderItems) :
        i <= Len(orderItems') /\ orderItems'[i] = orderItems[i]

C9_OrderItemsAreSnapshots == [][OrderItemsFrozen]_vars

\* the first product was renamed after an order item had been created with
\* its former name, which the order item still has
C9_Witness ==
    /\ ret.op = "updateProduct"
    /\ ret.out = "value"
    /\ ret.args.id = 1
    /\ getProduct(1).name = "Novo"
    /\ Len(orderItems) = 1
    /\ orderItems[1].v.productName = "Creme Hidratante Facial"

(***************************************************************************)
(* C10.  updateUserStripeInfo for a user that has a shop owner sets that   *)
(* shop owner's Stripe ids to those supplied, its status to active and its *)
(* expiry to the time of the call plus thirty days, and returns it.        *)
(***************************************************************************)
StripeInfoActivates ==
    \A uid \in UserIdArgs, info \in StripeInfos :
        /\ ret'.op = "updateUserStripeInfo"
        /\ getShopOwnerByUserId(uid) # Undefined
        /\ updateUserStripeInfo(uid, info)
        => LET before == getShopOwnerByUserId(uid)
               after == MapGet(shopOwners', before.id)
           IN /\ after.stripeCustomerId = info.customerId
              /\ after.stripeSubscriptionId = info.subscriptionId
              /\ after.subscriptionStatus = "active"
              /\ after.subscriptionExpiresAt = now + ThirtyDays
              /\ after.id = before.id
              /\ after.userId = uid
              /\ ret'.out = "value"
              /\ ret'.val = after

C10_StripeInfoActivatesSubscription == [][StripeInfoActivates]_vars

\* the shop owner created inactive and without a store is active after the
\* call, made after the clock had moved or not
C10_Witness ==
    /\ ret.op = "updateUserStripeInfo"
    /\ ret.out = "value"
    /\ ret.val.id = 2
    /\ ret.val.storeId = NullInt
    /\ ret.val.subscriptionStatus = "active"
    /\ getShopOwner(2) = ret.val

(***************************************************************************)
(* C11.  A billing-linkage call (updateUserStripeInfo or                   *)
(* updateStripeCustomerId) for a user id that no shop owner has raises an  *)
(* error and changes no collection and no counter.                         *)
(***************************************************************************)
IsStripeCallWithoutOwner ==
    /\ ret'.op \in {"updateUserStripeInfo", "updateStripeCustomerId"}
    /\ getShopOwnerByUserId(ret'.args.userId) = Undefined
    /\ \/ /\ ret'.op = "updateUserStripeInfo"
          /\ updateUserStripeInfo(ret'.args.userId, ret'.args.info)
       \/ /\ ret'.op = "updateStripeCustomerId"
          /\ updateStripeCustomerId(ret'.args.userId,
                                    ret'.args.stripeCustomerId)

StripeWithoutOwnerThrows ==
    IsStripeCallWithoutOwner =>
        ret'.out = "throw" /\ UNCHANGED <<maps, counters>>

C11_StripeWithoutOwnerRaises == [][StripeWithoutOwnerThrows]_vars

(***************************************************************************)
(* C12.  updateStripeCustomerId for a user that has a shop owner sets that *)
(* shop owner's stripeCustomerId to the one supplied, its status to active *)
(* and its expiry to the time of the call plus thirty days.                *)
(***************************************************************************)
StripeCustomerIdActivates ==
    /\ ret'.op = "updateStripeCustomerId"
    /\ getShopOwnerByUserId(ret'.args.userId) # Undefined
    /\ updateStripeCustomerId(ret'.args.userId, ret'.args.stripeCustomerId)
    => LET before == getShopOwnerByUserId(ret'.args.userId)
           after == MapGet(shopOwners', before.id)
       IN /\ after.stripeCustomerId = ret'.args.stripeCustomerId
          /\ after.subscriptionStatus = "active"
          /\ after.subscriptionExpiresAt = now + ThirtyDays

C12_StripeCustomerIdActivatesSubscription ==
    [][StripeCustomerIdActivates]_vars

(***************************************************************************)
(* C13.  Store operations are atomic with respect to one another: the      *)
(* outcome of two overlapping calls is that of one of their two serial     *)
(* orders.  For an updateShopOwnerSubscription that runs while a Stripe    *)
(* call is suspended between its lookup of the same shop owner and its     *)
(* write, both serial orders leave every key of the partial that the       *)
(* Stripe call does not itself write at the partial's value, so the stored *)
(* shop owner must carry those keys once the Stripe call has returned.     *)
(***************************************************************************)
StripeWrites(op) ==
    IF op = "updateUserStripeInfo"
    THEN {"stripeCustomerId", "stripeSubscriptionId", "subscriptionStatus",
          "subscriptionExpiresAt"}
    ELSE {"stripeCustomerId"}

\* a Stripe call goes on from its last await, the last call made while it
\* was suspended being an updateShopOwnerSubscription of the shop owner
\* it had looked up
ResumesAfterSubscriptionUpdate ==
    /\ awaiting.pc = "shopOwner"
    /\ awaiting.shopOwner # Undefined
    /\ ret.op = "updateShopOwnerSubscription"
    /\ ret.out = "value"
    /\ ret.args.id = awaiting.shopOwner.id
    /\ awaiting'.pc = "idle"

SubscriptionUpdateNotLost ==
    ResumesAfterSubscriptionUpdate =>
        LET stored == MapGet(shopOwners', ret.args.id)
            partial == ret.args.partial
        IN \A key \in DOMAIN partial \ StripeWrites(awaiting.op) :
              stored[key] = partial[key]

C13_OverlappingCallsAreSerializable == [][SubscriptionUpdateNotLost]_vars

(***************************************************************************)
(* C14.  No two users have the same username, and no two users have the    *)
(* same email.                                                             *)
(***************************************************************************)
C14_UsernameAndEmailUnique ==
    \A i, j \in 1..Len(users) :
        i # j => /\ users[i].v.username # users[j].v.username
                 /\ users[i].v.email # users[j].v.email

(***************************************************************************)
(* C15.  No two stores have the same slug, null aside.                     *)
(***************************************************************************)
C15_SlugUniqueWhenPresent ==
    \A i, j \in 1..Len(stores) :
        i # j /\ stores[i].v.slug # Null =>
            stores[i].v.slug # stores[j].v.slug

(***************************************************************************)
(* C16.  Every category's storeId is the id of a store the store holds.    *)
(***************************************************************************)
C16_CategoryStoreExists ==
    \A i \in 1..Len(categories) : getStore(categories[i].v.storeId) # Undefined

(***************************************************************************)
(* C17.  No two shop owners have the same userId, and no two customers     *)
(* have the same userId.                                                   *)
(***************************************************************************)
C17_OneShopOwnerAndCustomerPerUser ==
    /\ \A i, j \in 1..Len(shopOwners) :
          i # j => shopOwners[i].v.userId # shopOwners[j].v.userId
    /\ \A i, j \in 1..Len(customers) :
          i # j => customers[i].v.userId # customers[j].v.userId

(***************************************************************************)
(* C18.  A record the store holds is still held, under the same id, after  *)
(* every step that is not a delete called with its id or, for a cart item, *)
(* a deleteCart called with its cartId: no create, no update and no delete *)
(* aimed at another record removes it.                                     *)
(***************************************************************************)
DeleteOps ==
    {"deleteStore", "deleteCategory", "deleteProduct", "deleteCart",
     "deleteCartItem"}

\* the delete method of the kind, "" for a kind that has none
DeleteOp(kind) ==
    CASE kind = "stores" -> "deleteStore"
      [] kind = "categories" -> "deleteCategory"
      [] kind = "products" -> "deleteProduct"
      [] kind = "carts" -> "deleteCart"
      [] kind = "cartItems" -> "deleteCartItem"
      [] OTHER -> ""

\* the step is a delete called for the record `entry` of the kind
DeleteAimedAt(kind, entry) ==
    /\ ret'.op \in DeleteOps
    /\ \/ ret'.op = DeleteOp(kind) /\ ret'.args.id = entry.k
       \/ /\ kind = "cartItems"
          /\ ret'.op = "deleteCart"
          /\ ret'.args.id = entry.v.cartId

RecordsStayUntilDeleted ==
    \A kind \in Kinds :
        \A i \in 1..Len(MapOf(kind)) :
            \/ MapHas(MapOf(kind)', MapOf(kind)[i].k)
            \/ DeleteAimedAt(kind, MapOf(kind)[i])

C18_RecordsLiveUntilDeleted == [][RecordsStayUntilDeleted]_vars

\* a cart item created for cart 2 is still there after deleteCart(1)
C18_Witness ==
    /\ ret.op = "deleteCart"
    /\ ret.args.id = 1
    /\ Len(cartItems) = 1
    /\ cartItems[1].v.cartId = 2
    /\ getCartItem(1) # Undefined

(***************************************************************************)
(* C19.  A create stores and returns a record in which every field the     *)
(* input supplies has the supplied value, and the optional fields the      *)
(* input omits have their defaults: active true, the nullable fields null, *)
(* the timestamps the time of the call.  (The id is the store's to assign  *)
(* and is no field of an input.)                                           *)
(***************************************************************************)
\* the optional fields of a kind that the property names, with their defaults
OptionalDefaults(kind) ==
    CASE kind = "products" ->
             [description |-> <<Null>>, imageUrl |-> <<Null>>,
              categoryId |-> <<NullInt>>, active |-> <<TRUE>>]
      [] kind = "stores" -> [slug |-> <<Null>>, active |-> <<TRUE>>]
      [] kind = "customers" -> [address |-> <<Null>>]
      [] OTHER -> [key \in {} |-> <<>>]

SuppliedFieldsKept(input, record) ==
    \A key \in DOMAIN input \ {"id"} :
        key \in DOMAIN record /\ <<record[key]>> = <<input[key]>>

OmittedFieldsDefaulted(kind, input, record) ==
    /\ \A key \in DOMAIN OptionalDefaults(kind) \ DOMAIN input :
          key \in DOMAIN record /\ <<record[key]>> = OptionalDefaults(kind)[key]
    /\ \A key \in {"createdAt", "updatedAt"} \cap DOMAIN record :
          key \notin DOMAIN input => record[key] = now

CreateFillsRecord ==
    \A kind \in Kinds :
        Creates(kind) =>
            /\ SuppliedFieldsKept(ret'.args.input, ret'.val)
            /\ OmittedFieldsDefaulted(kind, ret'.args.input, ret'.val)
            /\ MapGet(MapOf(kind)', ret'.val.id) = ret'.val

C19_CreateKeepsSuppliedFields == [][CreateFillsRecord]_vars

(***************************************************************************)
(* C20.  Every cart item the store holds has a quantity of at least 1.     *)
(***************************************************************************)
C20_CartItemQuantityPositive ==
    \A i \in 1..Len(cartItems) : cartItems[i].v.quantity >= 1

(***************************************************************************)
(* C21.  getStoreByOwner(userId) is the store whose id is the storeId of   *)
(* the first shop owner of that user; it is undefined when the user has no *)
(* shop owner, when that shop owner has no storeId, and when no store has  *)
(* that id.                                                                *)
(***************************************************************************)
\* positions in the shopOwners Map of the shop owners of the user
OwnersOf(uid) == {i \in 1..Len(shopOwners) : shopOwners[i].v.userId = uid}

StoreOfFirstOwner(uid) ==
    IF OwnersOf(uid) = {} THEN Undefined
    ELSE LET first == CHOOSE i \in OwnersOf(uid) : \A j \in OwnersOf(uid) : i <= j
             sid == shopOwners[first].v.storeId
             held == {i \in 1..Len(stores) : stores[i].k = sid}
         IN IF sid = NullInt \/ held = {} THEN Undefined
            ELSE stores[CHOOSE i \in held : TRUE].v

C21_GetStoreByOwnerJoins ==
    \A uid \in UserIdArgs : getStoreByOwner(uid) = StoreOfFirstOwner(uid)

\* user 2 has two shop owners, of stores 1 and 2 which both exist, and the
\* lookup gives store 1
C21_Witness ==
    /\ Cardinality(OwnersOf(2)) = 2
    /\ shopOwners[2].v.storeId = 2
    /\ getStore(2) # Undefined
    /\ getStoreByOwner(2) = getStore(1)
    /\ getStore(1) # Undefined

(***************************************************************************)
(* C22.  However the steps of /api/register requests interleave, no two    *)
(* users created by registration share a username or an email, and a       *)
(* request whose username or email already belongs to a user is answered   *)
(* with 400 and creates nothing.                                           *)
(***************************************************************************)
\* the users registration created: those after the three seeded ones
Registered == {i \in 1..Len(users) : users[i].k > customerUser.id}

C22_RegistrationKeepsUsersUnique ==
    \A i, j \in Registered :
        i # j => /\ users[i].v.username # users[j].v.username
                 /\ users[i].v.email # users[j].v.email

(***************************************************************************)
(* C23.  A completed registration with role shopowner leaves exactly one   *)
(* shop owner of the new user, on trial, whose storeId is the id of a      *)
(* store the request created and that exists, and getStoreByOwner of the   *)
(* user gives that store; one with role customer leaves exactly one        *)
(* customer of the new user; no registered user has both profiles.         *)
(***************************************************************************)
Completed(r) == requests[r].pc = "done" /\ requests[r].status = 201

CustomersOf(uid) == {i \in 1..Len(customers) : customers[i].v.userId = uid}

ShopOwnerRegistered(r) ==
    LET req == requests[r]
        uid == req.user.id
    IN /\ Cardinality(OwnersOf(uid)) = 1
       /\ \A i \in OwnersOf(uid) :
             /\ shopOwners[i].v.subscriptionStatus = "trial"
             /\ shopOwners[i].v.storeId = req.store.id
       /\ req.store.id > defaultStore.id
       /\ \A other \in RequestIds \ {r} :
             requests[other].store = Undefined
             \/ requests[other].store.id # req.store.id
       /\ getStore(req.store.id) = req.store
       /\ getStoreByOwner(uid) = req.store
       /\ CustomersOf(uid) = {}

CustomerRegistered(r) ==
    LET uid == requests[r].user.id
    IN /\ Cardinality(CustomersOf(uid)) = 1
       /\ OwnersOf(uid) = {}

C23_RegistrationCreatesOneProfile ==
    /\ \A r \in RequestIds :
          Completed(r) =>
              CASE requests[r].role = "shopowner" -> ShopOwnerRegistered(r)
                [] requests[r].role = "customer" -> CustomerRegistered(r)
                [] OTHER -> /\ OwnersOf(requests[r].user.id) = {}
                            /\ CustomersOf(requests[r].user.id) = {}
    /\ \A i \in Registered :
          OwnersOf(users[i].k) = {} \/ CustomersOf(users[i].k) = {}

\* two registrations served at once have completed, one of a shop owner
\* and one of a customer
C23_Witness ==
    \E r, other \in RequestIds :
        /\ Completed(r) /\ requests[r].role = "shopowner"
        /\ Completed(other) /\ requests[other].role = "customer"
        /\ requests[other].user.id < requests[r].user.id

(***************************************************************************)
(* C24.  The modification time follows the last change: a successful       *)
(* updateStore or updateProduct leaves the record with updatedAt the time  *)
(* of the call and with the id and createdAt it had; a successful          *)
(* createCartItem, updateCartItem or deleteCartItem leaves the cart of the *)
(* item, when there is one, with updatedAt the time of the call; and no    *)
(* store, product or cart has an updatedAt before its createdAt.           *)
(***************************************************************************)
\* `after` is `before` changed at the time of the call
Restamped(before, after) ==
    /\ after.updatedAt = now'
    /\ after.id = before.id
    /\ after.createdAt = before.createdAt

\* the cart cid, if there is one, is changed at the time of the call
CartTouched(cid) ==
    MapHas(carts, cid) => MapGet(carts', cid).updatedAt = now'

UpdateStamps ==
    /\ ret'.op = "updateStore" /\ ret'.out = "value"
          /\ updateStore(ret'.args.id, ret'.args.partial)
          => Restamped(MapGet(stores, ret'.args.id),
                       MapGet(stores', ret'.args.id))
    /\ ret'.op = "updateProduct" /\ ret'.out = "value"
          /\ updateProduct(ret'.args.id, ret'.args.partial)
          => Restamped(MapGet(products, ret'.args.id),
                       MapGet(products', ret'.args.id))
    /\ ret'.op = "createCartItem" /\ createCartItem(ret'.args.input)
          => CartTouched(ret'.args.input.cartId)
    /\ ret'.op = "updateCartItem" /\ ret'.out = "value"
          /\ updateCartItem(ret'.args.id, ret'.args.quantity)
          => CartTouched(MapGet(cartItems, ret'.args.id).cartId)
    /\ ret'.op = "deleteCartItem" /\ ret'.val = TRUE
          /\ deleteCartItem(ret'.args.id)
          => CartTouched(MapGet(cartItems, ret'.args.id).cartId)

NeverUpdatedBeforeCreated ==
    \A m \in {stores, products, carts} :
        \A i \in 1..Len(m) : m[i].v.updatedAt >= m[i].v.createdAt

C25_StoredIdIsKey ==
    \A kind \in Kinds :
        \A i \in 1..Len(MapOf(kind)) : MapOf(kind)[i].v.id = MapOf(kind)[i].k

(***************************************************************************)
(* C26.  A delete that returns false changes nothing: deleteCart,          *)
(* deleteCartItem, deleteProduct, deleteCategory or deleteStore called     *)
(* with an id no record has leaves every collection and every counter as   *)
(* it was.                                                                 *)
(***************************************************************************)
\* the step is the delete method `op` called with ret'.args.id
IsDelete(op) ==
    /\ ret'.op = op
    /\ CASE op = "deleteStore" -> deleteStore(ret'.args.id)
         [] op = "deleteCategory" -> deleteCategory(ret'.args.id)
         [] op = "deleteProduct" -> deleteProduct(ret'.args.id)
         [] op = "deleteCart" -> deleteCart(ret'.args.id)
         [] op = "deleteCartItem" -> deleteCartItem(ret'.args.id)

FailedDeleteChangesNothing ==
    \A op \in DeleteOps :
        ret'.op = op /\ ret'.val = FALSE /\ IsDelete(op)
            => UNCHANGED <<maps, counters>>

C26_FailedDeleteChangesNothing == [][FailedDeleteChangesNothing]_vars

(***************************************************************************)
(* C27.  A call on one kind leaves the other kinds alone.  A create moves  *)
(* only its own counter, by one, and adds one record to its own            *)
(* collection; an update or a delete changes only the record it is aimed   *)
(* at.  The only effects across collections: deleteCart removes the cart   *)
(* items of the cart, and the cart item methods set updatedAt of the       *)
(* item's cart.                                                            *)
(***************************************************************************)
OpsOf(kind) ==
    CASE kind = "users" -> {"createUser", "updateUser"}
      [] kind = "stores" -> {"createStore", "updateStore", "deleteStore"}
      [] kind = "categories" ->
            {"createCategory", "updateCategory", "deleteCategory"}
      [] kind = "products" ->
            {"createProduct", "updateProduct", "deleteProduct"}
      [] kind = "shopOwners" ->
            {"createShopOwner", "updateShopOwnerSubscription",
             "updateStripeCustomerId", "updateUserStripeInfo"}
      [] kind = "customers" -> {"createCustomer", "updateCustomer"}
      [] kind = "carts" -> {"createCart", "deleteCart"}
      [] kind = "cartItems" ->
            {"createCartItem", "updateCartItem", "deleteCartItem"}
      [] kind = "orders" -> {"createOrder", "updateOrderWhatsappStatus"}
      [] kind = "orderItems" -> {"createOrderItem"}

\* the key of the record the call recorded in `r` is aimed at (NullInt when
\* a Stripe call finds no shop owner)
AimedAt(r) ==
    CASE r.op \in {CreateOp(kind) : kind \in Kinds} -> r.val.id
      [] r.op \in {"updateStripeCustomerId", "updateUserStripeInfo"} ->
            IF getShopOwnerByUserId(r.args.userId) = Undefined THEN NullInt
            ELSE getShopOwnerByUserId(r.args.userId).id
      [] OTHER -> r.args.id

\* from m to after, nothing but the record under `key` has changed
OnlyChanged(m, after, key) ==
    /\ MapKeys(after) \subseteq MapKeys(m) \cup {key}
    /\ \A i \in 1..Len(m) : m[i].k # key => MapGet(after, m[i].k) = m[i].v

\* the cart of the item the cart item call recorded in `r` is about
CartOfItem(r) ==
    CASE r.op = "createCartItem" -> r.args.input.cartId
      [] MapHas(cartItems, r.args.id) -> MapGet(cartItems, r.args.id).cartId
      [] OTHER -> NullInt

\* from carts to after, nothing but updatedAt of the cart cid has changed
OnlyTouched(after, cid) ==
    /\ MapKeys(after) = MapKeys(carts)
    /\ \A i \in 1..Len(carts) :
          LET cart == carts[i].v
          IN MapGet(after, carts[i].k) =
                IF carts[i].k = cid
                THEN [cart EXCEPT !.updatedAt = MapGet(after, cid).updatedAt]
                ELSE cart

\* from cartItems to after, nothing but items of the cart cid has gone
OnlyItemsOfCartGone(after, cid) ==
    /\ MapKeys(after) \subseteq MapKeys(cartItems)
    /\ \A i \in 1..Len(cartItems) :
          \/ MapGet(after, cartItems[i].k) = cartItems[i].v
          \/ cartItems[i].v.cartId = cid /\ ~MapHas(after, cartItems[i].k)

CallKeepsFrame ==
    now' = now =>
        \A kind \in Kinds :
            LET m == MapOf(kind)
                created == ret'.op = CreateOp(kind)
            IN /\ CounterOf(kind)' =
                     IF created THEN CounterOf(kind) + 1 ELSE CounterOf(kind)
               /\ created => Len(m') = Len(m) + 1
               /\ CASE ret'.op \in OpsOf(kind) ->
                          OnlyChanged(m, m', AimedAt(ret'))
                    [] kind = "cartItems" /\ ret'.op = "deleteCart" ->
                          OnlyItemsOfCartGone(m', ret'.args.id)
                    [] kind = "carts" /\ ret'.op \in OpsOf("cartItems") ->
                          OnlyTouched(m', CartOfItem(ret'))
                    [] OTHER -> m' = m

C27_CallsKeepToTheirKind == [][CallKeepsFrame]_vars

\* a store that has categories, products and a shop owner was deleted, and
\* they are all still there
C27_Witness ==
    /\ ret.op = "deleteStore"
    /\ ret.val = TRUE
    /\ getStore(1) = Undefined
    /\ Len(getCategories(1)) = 4
    /\ Len(getProducts(1)) = 6
    /\ getShopOwner(1).storeId = 1

(***************************************************************************)
(* C28.  In the cart of the storefront page each product has at most one   *)
(* line and every line has a quantity of at least 1.  addToCart of a       *)
(* product in the cart raises the quantity of its line by one and adds no  *)
(* line; addToCart of another product appends a line of quantity 1;        *)
(* updateQuantity with a value below 1 changes nothing; removeFromCart     *)
(* removes the line of the product and no other.                           *)
(***************************************************************************)
OneLinePerProduct ==
    /\ \A i, j \in 1..Len(page.cartItems) :
          page.cartItems[i].productId = page.cartItems[j].productId => i = j
    /\ \A i \in 1..Len(page.cartItems) : page.cartItems[i].quantity >= 1

\* the cart lines before and after the step
LinesBefore == page.cartItems
LinesAfter == page'.cartItems

AddedToCart(product) ==
    IF LinesOf(LinesBefore, product.id) # {}
    THEN /\ Len(LinesAfter) = Len(LinesBefore)
         /\ \A i \in 1..Len(LinesBefore) :
               LinesAfter[i] =
                  IF i \in LinesOf(LinesBefore, product.id)
                  THEN [LinesBefore[i] EXCEPT
                           !.quantity = LinesBefore[i].quantity + 1]
                  ELSE LinesBefore[i]
    ELSE /\ Len(LinesAfter) = Len(LinesBefore) + 1
         /\ SubSeq(LinesAfter, 1, Len(LinesBefore)) = LinesBefore
         /\ LinesAfter[Len(LinesAfter)].productId = product.id
         /\ LinesAfter[Len(LinesAfter)].quantity = 1

RemovedFromCart(pid) ==
    /\ LinesOf(LinesAfter, pid) = {}
    /\ Len(LinesAfter) = Len(LinesBefore) - Cardinality(LinesOf(LinesBefore, pid))
    /\ \A i \in 1..Len(LinesBefore) :
          LinesBefore[i].productId # pid =>
              \E j \in 1..Len(LinesAfter) : LinesAfter[j] = LinesBefore[i]

CartClickDoesItsPart ==
    \A product \in PageProducts :
        /\ addToCart(product) => AddedToCart(product)
        /\ removeFromCart(product.id) => RemovedFromCart(product.id)
        /\ \A newQuantity \in 0..MaxQuantity :
              newQuantity < 1 /\ updateQuantity(product.id, newQuantity)
                  => page' = page

C28_PageCartHasOneLinePerProduct ==
    []OneLinePerProduct /\ [][CartClickDoesItsPart]_vars

\* two lines, the first added twice
C28_Witness ==
    /\ Len(page.cartItems) = 2
    /\ page.cartItems[1].quantity = 2
    /\ page.cartItems[1].productId # page.cartItems[2].productId

(***************************************************************************)
(* C29.  Checkout on the storefront page.  Submitting the form on a store  *)
(* without a WhatsApp number leaves the cart, the dialog and               *)
(* checkoutSuccess as they were and opens no link.  Otherwise              *)
(* checkoutSuccess is true at once; the first timeout opens one link, for  *)
(* the lines the cart had at submission, empties the cart and closes the   *)
(* dialog; the second timeout sets checkoutSuccess back to false.  So      *)
(* checkoutSuccess never stays true: the page comes back to where an order *)
(* can be placed.                                                          *)
(***************************************************************************)
\* the link lists the lines `items`, and their total
LinkIsFor(link, items) ==
    /\ Len(link.orderItems) = Len(items)
    /\ \A i \in 1..Len(items) :
          /\ link.orderItems[i].quantity = items[i].quantity
          /\ link.orderItems[i].name = items[i].product.name
          /\ link.orderItems[i].price = items[i].product.price * items[i].quantity
    /\ link.total = cartTotalOf(items)

Submitted ==
    handleNonAuthCheckout =>
        IF page.store.whatsappNumber = "" THEN page' = page
        ELSE /\ page'.checkoutSuccess
             /\ page'.cartItems = page.cartItems
             /\ page'.isCheckoutOpen = page.isCheckoutOpen
             /\ page'.opened = page.opened
             /\ Len(page'.timers) = 1
             /\ page'.timers[1].run = "open"
             /\ LinkIsFor(page'.timers[1].whatsappUrl, page.cartItems)

FirstTimeout ==
    Timeouts /\ page.timers[1].run = "open" =>
        /\ page'.opened = Append(page.opened, page.timers[1].whatsappUrl)
        /\ page'.cartItems = <<>>
        /\ ~page'.isCheckoutOpen
        /\ page'.checkoutSuccess
        /\ Len(page'.timers) = 1
        /\ page'.timers[1].run = "reset"

SecondTimeout ==
    Timeouts /\ page.timers[1].run = "reset" =>
        /\ ~page'.checkoutSuccess
        /\ page'.timers = <<>>
        /\ page'.opened = page.opened
        /\ page'.cartItems = page.cartItems
        /\ page'.isCheckoutOpen = page.isCheckoutOpen

\* links are opened by the first timeout alone, and none on a store
\* without a number
OnlyTimeoutOpensLinks ==
    /\ page'.opened # page.opened => Timeouts /\ page.timers[1].run = "open"
    /\ page.store.whatsappNumber = "" =>
          /\ page'.opened = <<>>
          /\ page'.timers = <<>>
          /\ ~page'.checkoutSuccess

CheckoutSteps ==
    Submitted /\ FirstTimeout /\ SecondTimeout /\ OnlyTimeoutOpensLinks

\* checkoutSuccess is true exactly while a timeout is still to run
SuccessWhileTimeoutSet == page.checkoutSuccess <=> page.timers # <<>>

C29_CheckoutRunsToTheEnd ==
    /\ [][CheckoutSteps]_vars
    /\ []SuccessWhileTimeoutSet
    /\ page.checkoutSuccess ~> ~page.checkoutSuccess

\* an order of two lines has gone through: its link is open, the cart is
\* empty, the dialog closed and checkoutSuccess false again
C29_Witness ==
    /\ Len(page.opened) = 1
    /\ Len(page.opened[1].orderItems) = 2
    /\ page.opened[1].number = "11987654321"
    /\ page.cartItems = <<>>
    /\ ~page.isCheckoutOpen
    /\ ~page.checkoutSuccess
    /\ page.timers = <<>>

(***************************************************************************)
(* C30.  Login with username u succeeds only with the password of the user *)
(* u: the password of another user, when it differs, does not log u in,    *)
(* the three seeded users included, and an unknown username never logs in. *)
(***************************************************************************)
\* the password each user chose: the seeded users' are the ones the
\* constructor names, a registered user's is the one of the request
PasswordOf(user) ==
    CASE user.id = adminUser.id -> "admin123"
      [] user.id = shopOwnerUser.id -> "lojista123"
      [] user.id = customerUser.id -> "cliente123"
      [] OTHER ->
            LET r == CHOOSE r \in RequestIds :
                        /\ requests[r].user # Undefined
                        /\ requests[r].user.id = user.id
            IN requests[r].body.password

SuppliedPasswords ==
    {"admin123", "lojista123", "cliente123", "segredo", "outra", "errada"}

LoginNames == Usernames \cup {"ana", "bia", "dora"}

C30_LoginOnlyWithOwnPassword ==
    \A username \in LoginNames, supplied \in SuppliedPasswords :
        LET user == verify(username, supplied)
        IN user # NotAuthenticated =>
              /\ user.username = username
              /\ supplied = PasswordOf(user)

====
